---- MODULE Spec2Model ----
(***************************************************************************)
(* Context & Memory Cache Hierarchy of Roxane OS.                          *)
(*                                                                         *)
(* The ContextCoordinator (core/nlp/context_manager.py) over its three     *)
(* tiers: the process-local cache, the Redis key "context:<user>" and the  *)
(* PostgreSQL store (core/database/manager.py, core/database/models.py).   *)
(* The MemoryCoordinator (core/memory/memory.py) over its in-process       *)
(* cache, the same store and one JSON file per session.                    *)
(*                                                                         *)
(* Conventions.  An optional value (Python None or a value) is a sequence  *)
(* of length 0 or 1.  A Python dict is a function on its key set.  A       *)
(* datetime is [s, us] (whole ticks, microseconds); the clock of the model *)
(* is the variable now.  Every call of a backend can fail: the operations  *)
(* take the set rf of Redis commands that fail during the call and the     *)
(* number df of the store step that fails (0: none).                       *)
(***************************************************************************)
EXTENDS Integers, Sequences, FiniteSets, TLC

\* ------------------------------------------------------------------ bounds
MaxTime == 2
MaxCalls == 3
\* configuration, scaled down: max_history (default 20), cache_ttl (default
\* 3600 s) and the 24 h reuse window of conversations, in ticks of the clock
MaxHistory == 1
CacheTtl == 1
ReuseWindow == 2

Users == {"u1", "u2"}

VARIABLES
    now,              \* the clock (datetime.now())
    redis_client,     \* ContextManager.redis_client is not None
    db_initialized,   \* DatabaseManager._initialized
    local_cache,      \* ContextManager._local_cache: user -> context
    local_cache_ttl,  \* ContextManager._local_cache_ttl: user -> expiry
    redis_store,      \* the Redis keys context:<user>: user -> [data, exp]
    db,               \* the tables users, sessions, conversations, messages
    tasks,            \* detached _save_to_db_async tasks
    ncalls,           \* coordinator calls so far (bounded by MaxCalls)
    log,              \* per user, the last coordinator call and its outcome
    since,            \* per user, history at load and messages appended since
    serIn,            \* serialization round trip: the context given
    serOut,           \* serialization round trip: the context read back
    use_postgres,     \* MemoryManager: use_postgres and db_manager is set
    conversations,    \* MemoryManager._conversations: session -> entries
    last_cleanup,     \* MemoryManager._last_cleanup
    files,            \* storage_path/<session>.json: session -> JSON array
    mcalls,           \* MemoryManager calls so far (bounded by MaxMemCalls)
    mlog,             \* the last MemoryManager call and its outcome
    added,            \* per session, the entries add_message was given
    cache_client,     \* RedisCacheManager.client is not None
    cache,            \* the keys of the Redis server: key -> [data, exp]
    stats,            \* RedisCacheManager._stats
    ccalls,           \* RedisCacheManager calls so far
    clog,             \* the last RedisCacheManager call and its outcome
    threads,          \* DatabaseManager calls running in executor threads
    waiting,          \* the coordinator call awaiting a backend, if any
    peer_cache,       \* _local_cache of a second coordinator process
    peer_cache_ttl,   \* _local_cache_ttl of the second process
    plog,             \* the last get_context of the second process
    coros             \* update_context coroutines of one event loop

\* the state of the MemoryManager, and the state only the ContextManager has
memVars == <<use_postgres, conversations, last_cleanup, files, mcalls, mlog,
             added>>

ctxVars == <<redis_client, local_cache, local_cache_ttl, redis_store, tasks,
             ncalls, log, since, serIn, serOut>>

\* the state of the RedisCacheManager
cacheVars == <<cache_client, cache, stats, ccalls, clog>>

\* the state of the components the two managers do not touch
\* executor threads, a pending call, a second process
dbVars == <<threads>>

waitVars == <<waiting>>

peerVars == <<peer_cache, peer_cache_ttl, plog>>

coVars == <<coros>>

extVars == <<cacheVars, dbVars, waitVars, peerVars, coVars>>

vars == <<now, redis_client, db_initialized, local_cache, local_cache_ttl,
          redis_store, db, tasks, ncalls, log, since, serIn, serOut,
          use_postgres, conversations, last_cleanup, files, mcalls, mlog,
          added, cache_client, cache, stats, ccalls, clog, threads, waiting,
          peer_cache, peer_cache_ttl, plog, coros>>

\* ------------------------------------------------------------ basic values
None == <<>>

Some(x) == <<x>>

Min(a, b) == IF a < b THEN a ELSE b

\* the last n elements of s: s[-n:] for 0 < n
LastN(s, n) == IF Len(s) <= n THEN s ELSE SubSeq(s, Len(s) - n + 1, Len(s))

\* s[-n:] of Python for n >= 0: s[-0:] is s[0:], the whole list
PySliceLast(s, n) == IF n = 0 THEN s ELSE LastN(s, n)

\* core/interfaces.py: frozen dataclass Message
Message(content, role, timestamp, metadata) ==
    [content |-> content, role |-> role, timestamp |-> timestamp,
     metadata |-> metadata]

\* core/interfaces.py: dataclass ConversationContext
ConversationContext(user_id, session_id, history, metadata) ==
    [user_id |-> user_id, session_id |-> session_id, history |-> history,
     metadata |-> metadata]

DateTime(s, us) == [s |-> s, us |-> us]

\* f"session_{user_id}"
SessionOfUser(u) == [prefix |-> "session_", user |-> u, stamp |-> -1]

\* f"session_{datetime.now().strftime('%Y%m%d_%H%M%S')}"
SessionOfTime(t) == [prefix |-> "session_", user |-> "", stamp |-> t]

\* the n-th exchange the caller passes to update_context: contents are
\* numbered, timestamps and metadata vary (scripts/test_context.py passes
\* timestamp=None)
Exchange(n) ==
    IF n % 2 = 1
    THEN <<Message(2 * n - 1, "user", None, "{test}"),
           Message(2 * n, "assistant", None, "{confidence}")>>
    ELSE <<Message(2 * n - 1, "user", Some(DateTime(n, 0)), "None"),
           Message(2 * n, "assistant", Some(DateTime(n, 500)), "{}")>>

\* ------------------------------------------------------------ serialization
\* datetime.isoformat(): the microseconds are left out when they are 0
IsoFormat(dt) == IF dt.us = 0 THEN <<dt.s>> ELSE <<dt.s, dt.us>>

\* a fromisoformat that reads the seconds only: the round trip of C10 does
\* not survive it
FromIsoFormatSeconds(str) == DateTime(str[1], 0)

\* datetime.fromisoformat()
FromIsoFormat(str) ==
    DateTime(str[1], IF Len(str) > 1 THEN str[2] ELSE 0)

SerializeMessage(msg) ==
    [content |-> msg.content,
     role |-> msg.role,
     timestamp |-> IF msg.timestamp # None
                   THEN Some(IsoFormat(msg.timestamp[1])) ELSE None,
     metadata |-> msg.metadata]

SerializeContext(context) ==
    [user_id |-> context.user_id,
     session_id |-> context.session_id,
     history |-> [i \in 1..Len(context.history) |->
                     SerializeMessage(context.history[i])],
     metadata |-> context.metadata]

DeserializeMessage(msg_data) ==
    Message(msg_data.content, msg_data.role,
            IF msg_data.timestamp # None
            THEN Some(FromIsoFormat(msg_data.timestamp[1])) ELSE None,
            msg_data.metadata)

DeserializeContext(data) ==
    ConversationContext(
        data.user_id, data.session_id,
        [i \in 1..Len(data.history) |-> DeserializeMessage(data.history[i])],
        data.metadata)

\* json.dumps of the serialized context: the payload stored in Redis
JsonDumps(context_data) == [kind |-> "json", doc |-> context_data]

\* payloads json.loads or _deserialize_context rejects: not JSON at all, or
\* JSON without 'user_id' / 'session_id'
BadPayloadKinds == {"notjson", "nofields"}

EmptyDoc == [user_id |-> "", session_id |-> SessionOfTime(0),
             history |-> <<>>, metadata |-> <<>>]

BadPayload(kind) == [kind |-> kind, doc |-> EmptyDoc]

\* -------------------------------------------------------------- LocalCache
\* a _check_local_cache that never looks at the expiry: the tier order of C2
\* does not survive it
CheckLocalCacheNoExpiry(lc, lttl, u, t) ==
    [hit |-> u \in DOMAIN lc, lc |-> lc, lttl |-> lttl]

\* _check_local_cache: a miss for an absent key; an entry whose expiry has
\* passed is deleted with its expiry record
CheckLocalCache(lc, lttl, u, t) ==
    IF u \notin DOMAIN lc
    THEN [hit |-> FALSE, lc |-> lc, lttl |-> lttl]
    ELSE IF u \in DOMAIN lttl /\ t > lttl[u]
    THEN [hit |-> FALSE,
          lc |-> [k \in DOMAIN lc \ {u} |-> lc[k]],
          lttl |-> [k \in DOMAIN lttl \ {u} |-> lttl[k]]]
    ELSE [hit |-> TRUE, lc |-> lc, lttl |-> lttl]

\* a _set_local_cache that keeps the entry it finds: C14 does not survive it
SetLocalCacheKeepOld(lc, lttl, u, context, t) ==
    [lc |-> lc @@ (u :> context),
     lttl |-> lttl @@ (u :> (t + CacheTtl))]

\* _set_local_cache
SetLocalCache(lc, lttl, u, context, t) ==
    [lc |-> (u :> context) @@ lc,
     lttl |-> (u :> (t + CacheTtl)) @@ lttl]

\* -------------------------------------------------------- DistributedCache
\* redis GET context:<u>: a key whose time to live has run out is gone
RedisGet(store, u, t) ==
    IF u \in DOMAIN store /\ t < store[u].exp
    THEN Some(store[u].data) ELSE None

\* redis SETEX context:<u> ttl data
RedisSetex(store, u, ttl, data, t) ==
    (u :> [data |-> data, exp |-> t + ttl]) @@ store

\* a DEL that leaves the key: C8 does not survive it
RedisDeleteNothing(store, u) == store

\* redis DEL context:<u>
RedisDelete(store, u) == [k \in DOMAIN store \ {u} |-> store[k]]

\* the try body of _get_from_redis_cache: the GET may fail, json.loads
\* rejects what is no JSON, _deserialize_context what lacks its fields
GetFromRedisBody(client, store, u, rf, t) ==
    IF ~client THEN [raised |-> FALSE, value |-> None]
    ELSE IF "get" \in rf THEN [raised |-> TRUE, value |-> None]
    ELSE LET data == RedisGet(store, u, t) IN
         IF data = None THEN [raised |-> FALSE, value |-> None]
         ELSE IF data[1].kind \in BadPayloadKinds
         THEN [raised |-> TRUE, value |-> None]
         ELSE [raised |-> FALSE,
               value |-> Some(DeserializeContext(data[1].doc))]

\* a _get_from_redis_cache without its handler: C1 does not survive it
GetFromRedisCacheUnhandled(client, store, u, rf, t) ==
    GetFromRedisBody(client, store, u, rf, t)

\* _get_from_redis_cache: any exception is logged and None returned
GetFromRedisCache(client, store, u, rf, t) ==
    LET Handled(b) ==
            IF b.raised THEN [raised |-> FALSE, value |-> None] ELSE b
    IN  Handled(GetFromRedisBody(client, store, u, rf, t))

\* the try body of _set_redis_cache
SetRedisBody(client, store, u, context, rf, t) ==
    IF ~client THEN [raised |-> FALSE, store |-> store]
    ELSE IF "setex" \in rf THEN [raised |-> TRUE, store |-> store]
    ELSE [raised |-> FALSE,
          store |-> RedisSetex(store, u, CacheTtl,
                               JsonDumps(SerializeContext(context)), t)]

\* _set_redis_cache: any exception is logged
SetRedisCache(client, store, u, context, rf, t) ==
    LET Handled(b) ==
            IF b.raised THEN [raised |-> FALSE, store |-> store] ELSE b
    IN  Handled(SetRedisBody(client, store, u, context, rf, t))

\* --------------------------------------------------------- PersistentStore
\* Rows are identified by their position in the table (the UUID keys).
EmptyDb == [users |-> <<>>, sessions |-> <<>>, conversations |-> <<>>,
            messages |-> <<>>]

\* models.py: class Conversation declares no is_active column, so the
\* expression Conversation.is_active raises AttributeError
ConversationHasIsActive == FALSE

\* get_user_by_username
GetUserByUsername(d, username) ==
    LET ids == {i \in 1..Len(d.users) : d.users[i].username = username} IN
    IF ids = {} THEN None ELSE Some(CHOOSE i \in ids : \A j \in ids : i <= j)

\* get_or_create_user (get_user_by_username, then create_user)
GetOrCreateUser(d, username, fail) ==
    IF fail THEN [raised |-> TRUE, db |-> d, id |-> 0]
    ELSE LET found == GetUserByUsername(d, username) IN
         IF found # None THEN [raised |-> FALSE, db |-> d, id |-> found[1]]
         ELSE [raised |-> FALSE,
               db |-> [d EXCEPT !.users =
                          Append(@, [username |-> username])],
               id |-> Len(d.users) + 1]

\* get_session_by_id: the row whose session_token is the given id
GetSessionById(d, session_id) ==
    LET ids == {i \in 1..Len(d.sessions) :
                   d.sessions[i].session_token = session_id} IN
    IF ids = {} THEN None ELSE Some(CHOOSE i \in ids : \A j \in ids : i <= j)

\* get_or_create_session (get_session_by_id, then create_session)
GetOrCreateSession(d, user_id, session_id, fail) ==
    IF fail THEN [raised |-> TRUE, db |-> d, id |-> 0]
    ELSE LET found == GetSessionById(d, session_id) IN
         IF found # None THEN [raised |-> FALSE, db |-> d, id |-> found[1]]
         ELSE [raised |-> FALSE,
               db |-> [d EXCEPT !.sessions =
                          Append(@, [user_id |-> user_id,
                                     session_token |-> session_id])],
               id |-> Len(d.sessions) + 1]

\* the query of _get_or_create_conversation: the conversation of the session
\* created last among those created in the last 24 hours
RecentConversation(d, session_id, t) ==
    LET ids == {i \in 1..Len(d.conversations) :
                   /\ d.conversations[i].session_id = session_id
                   /\ d.conversations[i].created_at >= t - ReuseWindow} IN
    IF ids = {} THEN None
    ELSE Some(CHOOSE i \in ids : \A j \in ids :
                 \/ d.conversations[i].created_at
                        > d.conversations[j].created_at
                 \/ /\ d.conversations[i].created_at
                        = d.conversations[j].created_at
                    /\ i >= j)

\* session.add(Conversation(session_id=...)); commit; refresh
CreateConversation(d, session_id, t) ==
    [raised |-> FALSE,
     db |-> [d EXCEPT !.conversations =
                Append(@, [session_id |-> session_id, created_at |-> t,
                           message_count |-> 0])],
     id |-> Len(d.conversations) + 1,
     message_count |-> 0]

\* the try body of _get_or_create_conversation
ConversationQueryBody(d, session_id, fail, t) ==
    IF fail \/ ~ConversationHasIsActive
    THEN [raised |-> TRUE, db |-> d, id |-> 0, message_count |-> 0]
    ELSE LET recent == RecentConversation(d, session_id, t) IN
         IF recent # None
         THEN [raised |-> FALSE, db |-> d, id |-> recent[1],
               message_count |-> d.conversations[recent[1]].message_count]
         ELSE CreateConversation(d, session_id, t)

\* _get_or_create_conversation: when the try body raises, the handler
\* creates a conversation; what the handler raises reaches the caller
GetOrCreateConversation(d, session_id, fail, t) ==
    LET Handled(b) ==
            IF ~b.raised THEN b
            ELSE IF fail
            THEN [raised |-> TRUE, db |-> d, id |-> 0, message_count |-> 0]
            ELSE CreateConversation(d, session_id, t)
    IN  Handled(ConversationQueryBody(d, session_id, fail, t))

\* datetime order
DateTimeLeq(a, b) == a.s < b.s \/ (a.s = b.s /\ a.us <= b.us)

\* ORDER BY timestamp ASC (rows of equal timestamp keep their table order)
RECURSIVE SortByTimestamp(_)
SortByTimestamp(rows) ==
    IF Len(rows) <= 1 THEN rows
    ELSE LET i == CHOOSE i \in 1..Len(rows) :
                    \A j \in 1..Len(rows) :
                        \/ ~DateTimeLeq(rows[j].timestamp, rows[i].timestamp)
                        \/ (rows[j].timestamp = rows[i].timestamp /\ i <= j)
                        \/ i = j
         IN <<rows[i]>> \o SortByTimestamp(
                SubSeq(rows, 1, i - 1) \o SubSeq(rows, i + 1, Len(rows)))

\* DatabaseManager.add_message: the row and the counter commit together.
\* The keyword metadata= sets a plain attribute of the ORM object (the column
\* is meta_data), so the column takes its default {}; the timestamp column
\* takes its default utcnow(), later for each later insert
AddMessage(d, conversation_id, role, content, metadata, fail, t) ==
    IF fail \/ conversation_id \notin 1..Len(d.conversations)
    THEN [raised |-> TRUE, db |-> d]
    ELSE [raised |-> FALSE,
          db |-> [d EXCEPT
                    !.messages =
                        Append(@, [conversation_id |-> conversation_id,
                                   role |-> role,
                                   content |-> content,
                                   timestamp |-> DateTime(t, Len(d.messages)),
                                   meta_data |-> "{}"]),
                    !.conversations[conversation_id].message_count = @ + 1]]

\* DatabaseManager.update_conversation_message_count
UpdateConversationMessageCount(d, conversation_id, fail) ==
    IF fail THEN [raised |-> TRUE, db |-> d]
    ELSE IF conversation_id \notin 1..Len(d.conversations)
    THEN [raised |-> FALSE, db |-> d]
    ELSE [raised |-> FALSE,
          db |-> [d EXCEPT !.conversations[conversation_id].message_count =
                     Len(SelectSeq(d.messages,
                            LAMBDA row : row.conversation_id = conversation_id))]]

\* DatabaseManager.get_conversation_messages(conversation_id, limit):
\* filter, ORDER BY timestamp ASC, LIMIT limit when limit is truthy
GetConversationMessages(d, conversation_id, limit, fail) ==
    IF fail THEN [raised |-> TRUE, rows |-> <<>>]
    ELSE LET rows == SortByTimestamp(
                        SelectSeq(d.messages,
                            LAMBDA row : row.conversation_id = conversation_id))
         IN [raised |-> FALSE,
             rows |-> IF limit # 0
                      THEN SubSeq(rows, 1, Min(limit, Len(rows))) ELSE rows]

\* _load_from_db, lines 259-266: rows to Message objects
RowsToHistory(rows) ==
    [i \in 1..Len(rows) |->
        Message(rows[i].content, rows[i].role, Some(rows[i].timestamp),
                rows[i].meta_data)]

\* _load_from_db, the except branch: a new empty context
FallbackContext(u, t) ==
    ConversationContext(u, SessionOfTime(t), <<>>, [last_updated |-> t])

\* the try body of _load_from_db of a coordinator configured with
\* max_history.  df is the step that raises:
\* 1 get_or_create_user, 2 get_or_create_session,
\* 3 _get_or_create_conversation, 4 get_conversation_messages; with the store
\* not initialized the first step raises (SessionLocal is None).  Rows
\* created before the failing step stay.
LoadFromDbWindow(d, initialized, u, df, t, max_history) ==
    LET none == FallbackContext(u, t)
        WithMessages(sess, conv, msgs) ==
            IF msgs.raised
            THEN [raised |-> TRUE, db |-> conv.db, context |-> none]
            ELSE [raised |-> FALSE, db |-> conv.db,
                  context |->
                    ConversationContext(u, SessionOfUser(u),
                        RowsToHistory(msgs.rows),
                        [conversation_id |-> conv.id,
                         session_id |-> sess.id,
                         message_count |-> conv.message_count,
                         last_updated |-> t])]
        WithConversation(sess, conv) ==
            IF conv.raised
            THEN [raised |-> TRUE, db |-> sess.db, context |-> none]
            ELSE WithMessages(sess, conv,
                     GetConversationMessages(conv.db, conv.id, max_history,
                                             df = 4))
        WithSession(user, sess) ==
            IF sess.raised
            THEN [raised |-> TRUE, db |-> user.db, context |-> none]
            ELSE WithConversation(sess,
                     GetOrCreateConversation(sess.db, sess.id, df = 3, t))
        WithUser(user) ==
            IF user.raised
            THEN [raised |-> TRUE, db |-> d, context |-> none]
            ELSE WithSession(user,
                     GetOrCreateSession(user.db, user.id, SessionOfUser(u),
                                        df = 2))
    IN  WithUser(GetOrCreateUser(d, u, df = 1 \/ ~initialized))

\* the try body with max_history = MaxHistory
LoadFromDbBody(d, initialized, u, df, t) ==
    LoadFromDbWindow(d, initialized, u, df, t, MaxHistory)

\* the except branch of _load_from_db: any exception of the body b is
\* logged and a new empty context returned (failed: the load fell back)
LoadFromDbHandled(b, u, t) ==
    IF b.raised
    THEN [raised |-> FALSE, failed |-> TRUE, db |-> b.db,
          context |-> FallbackContext(u, t)]
    ELSE [raised |-> FALSE, failed |-> FALSE, db |-> b.db,
          context |-> b.context]

\* _load_from_db
LoadFromDb(d, initialized, u, df, t) ==
    LoadFromDbHandled(LoadFromDbBody(d, initialized, u, df, t), u, t)

\* ------------------------------------------------------ ContextCoordinator
\* get_context of a process whose local cache is lc, lttl, on the current
\* state of Redis and the store: what it returns (ret), whether it raised
\* ContextException, the tier that served it, the tier operations it issued
\* in order, and the state it leaves
GetContextOn(lc, lttl, u, rf, df) ==
    LET t1 == IF redis_client THEN <<"local_get", "redis_get">>
              ELSE <<"local_get">>
        t2 == t1 \o <<"db_load", "local_set">>
                 \o (IF redis_client THEN <<"redis_set">> ELSE <<>>)
        Stored(c, ld, l, s) ==
            IF ld.raised
            THEN [raised |-> TRUE, ret |-> None, served |-> "none",
                  tiers |-> t1 \o <<"db_load">>, failed |-> TRUE,
                  lc |-> c.lc, lttl |-> c.lttl, rs |-> redis_store,
                  db |-> ld.db]
            ELSE IF s.raised
            THEN [raised |-> TRUE, ret |-> None, served |-> "none",
                  tiers |-> t2, failed |-> ld.failed,
                  lc |-> l.lc, lttl |-> l.lttl, rs |-> s.store, db |-> ld.db]
            ELSE [raised |-> FALSE, ret |-> Some(ld.context), served |-> "db",
                  tiers |-> t2, failed |-> ld.failed,
                  lc |-> l.lc, lttl |-> l.lttl, rs |-> s.store, db |-> ld.db]
        Loaded(c, ld) ==
            Stored(c, ld, SetLocalCache(c.lc, c.lttl, u, ld.context, now),
                   IF redis_client
                   THEN SetRedisCache(redis_client, redis_store, u,
                                      ld.context, rf, now)
                   ELSE [raised |-> FALSE, store |-> redis_store])
        Cached(c, g, l) ==
            [raised |-> FALSE, ret |-> g.value, served |-> "redis",
             tiers |-> t1 \o <<"local_set">>, failed |-> FALSE,
             lc |-> l.lc, lttl |-> l.lttl, rs |-> redis_store, db |-> db]
        Missed(c, g) ==
            IF g.raised
            THEN [raised |-> TRUE, ret |-> None, served |-> "none",
                  tiers |-> t1, failed |-> FALSE,
                  lc |-> c.lc, lttl |-> c.lttl, rs |-> redis_store, db |-> db]
            ELSE IF g.value # None
            THEN Cached(c, g, SetLocalCache(c.lc, c.lttl, u, g.value[1], now))
            ELSE Loaded(c, LoadFromDb(db, db_initialized, u, df, now))
        Checked(c) ==
            IF c.hit
            THEN [raised |-> FALSE, ret |-> Some(c.lc[u]), served |-> "local",
                  tiers |-> <<"local_get">>, failed |-> FALSE,
                  lc |-> c.lc, lttl |-> c.lttl, rs |-> redis_store, db |-> db]
            ELSE Missed(c, IF redis_client
                           THEN GetFromRedisCache(redis_client, redis_store,
                                                  u, rf, now)
                           ELSE [raised |-> FALSE, value |-> None])
    IN  Checked(CheckLocalCache(lc, lttl, u, now))

\* get_context of the coordinator
GetContextCall(u, rf, df) ==
    GetContextOn(local_cache, local_cache_ttl, u, rf, df)

\* three other truncations of update_context: to max_history messages (C3
\* does not survive it), to the first 2 * max_history messages (C4 does
\* not), and none at all (C5 does not)
AppendExchangeHalfWindow(context, message, response, t) ==
    LET h1 == Append(Append(context.history, message), response)
        h2 == IF Len(h1) > MaxHistory THEN PySliceLast(h1, MaxHistory) ELSE h1
    IN  [context EXCEPT
            !.history = h2,
            !.metadata = ("last_updated" :> t) @@ ("message_count" :> Len(h2))
                             @@ context.metadata]

AppendExchangeKeepFirst(context, message, response, t) ==
    LET h1 == Append(Append(context.history, message), response)
        h2 == IF Len(h1) > MaxHistory * 2
              THEN SubSeq(h1, 1, MaxHistory * 2) ELSE h1
    IN  [context EXCEPT
            !.history = h2,
            !.metadata = ("last_updated" :> t) @@ ("message_count" :> Len(h2))
                             @@ context.metadata]

AppendExchangeUnbounded(context, message, response, t) ==
    LET h2 == Append(Append(context.history, message), response)
    IN  [context EXCEPT
            !.history = h2,
            !.metadata = ("last_updated" :> t) @@ ("message_count" :> Len(h2))
                             @@ context.metadata]

\* update_context, lines 127-137, of a coordinator configured with
\* max_history: append the pair, keep the last 2 * max_history messages,
\* stamp the metadata
AppendExchangeWindow(context, message, response, t, max_history) ==
    LET h1 == Append(Append(context.history, message), response)
        h2 == IF Len(h1) > max_history * 2
              THEN PySliceLast(h1, max_history * 2) ELSE h1
    IN  [context EXCEPT
            !.history = h2,
            !.metadata = ("last_updated" :> t) @@ ("message_count" :> Len(h2))
                             @@ context.metadata]

\* the same with max_history = MaxHistory
AppendExchange(context, message, response, t) ==
    AppendExchangeWindow(context, message, response, t, MaxHistory)

\* asyncio.create_task(self._save_to_db_async(user_id, message, response))
NewTask(u, message, response) ==
    [user |-> u, message |-> message, response |-> response]

\* update_context on the current state
UpdateContextCall(u, message, response, rf, df) ==
    LET Stored(g, l, s) ==
            IF s.raised
            THEN [raised |-> TRUE, get |-> g, lc |-> l.lc, lttl |-> l.lttl,
                  rs |-> s.store, db |-> g.db, tasks |-> tasks]
            ELSE [raised |-> FALSE, get |-> g, lc |-> l.lc, lttl |-> l.lttl,
                  rs |-> s.store, db |-> g.db,
                  tasks |-> Append(tasks, NewTask(u, message, response))]
        Appended(g, context) ==
            Stored(g, SetLocalCache(g.lc, g.lttl, u, context, now),
                   IF redis_client
                   THEN SetRedisCache(redis_client, g.rs, u, context, rf, now)
                   ELSE [raised |-> FALSE, store |-> g.rs])
        Got(g) ==
            IF g.raised
            THEN [raised |-> TRUE, get |-> g, lc |-> g.lc, lttl |-> g.lttl,
                  rs |-> g.rs, db |-> g.db, tasks |-> tasks]
            ELSE Appended(g, AppendExchange(g.ret[1], message, response, now))
    IN  Got(GetContextCall(u, rf, df))

\* a _clear_from_db that deletes the message rows: C7 does not survive it
ClearFromDbDeleting(d, u) == [d EXCEPT !.messages = <<>>]

\* _clear_from_db: the historical rows are kept
ClearFromDb(d, u) == d

\* a clear_context that deletes the context and leaves its expiry record:
\* the key sets of C37 do not survive it
ClearContextCallKeepExpiry(u, rf) ==
    LET lc == [k \in DOMAIN local_cache \ {u} |-> local_cache[k]]
    IN  IF redis_client /\ "delete" \in rf
        THEN [raised |-> TRUE, lc |-> lc, lttl |-> local_cache_ttl,
              rs |-> redis_store, db |-> db]
        ELSE [raised |-> FALSE, lc |-> lc, lttl |-> local_cache_ttl,
              rs |-> IF redis_client THEN RedisDelete(redis_store, u)
                     ELSE redis_store,
              db |-> ClearFromDb(db, u)]

\* clear_context on the current state: the local entry and its expiry go
\* first; a failing redis DELETE is not caught before the outer handler,
\* which raises ContextException
ClearContextCall(u, rf) ==
    LET lc == [k \in DOMAIN local_cache \ {u} |-> local_cache[k]]
        lttl == [k \in DOMAIN local_cache_ttl \ {u} |-> local_cache_ttl[k]]
    IN  IF redis_client /\ "delete" \in rf
        THEN [raised |-> TRUE, lc |-> lc, lttl |-> lttl, rs |-> redis_store,
              db |-> db]
        ELSE [raised |-> FALSE, lc |-> lc, lttl |-> lttl,
              rs |-> IF redis_client THEN RedisDelete(redis_store, u)
                     ELSE redis_store,
              db |-> ClearFromDb(db, u)]

\* the detached task _save_to_db_async(user_id, message, response), run when
\* the event loop resumes it: it reads the cached context (dict.get, no
\* expiry test) and ends without one or without its conversation id; then
\* step 1 inserts the user message, step 2 the response, step 3 recounts.
\* sf is the step that raises (0: none); the exception is logged and ends
\* the task, what was inserted before stays
SaveToDbAsyncCall(task, lc, d, sf, t) ==
    LET Second(cid, a1, a2) ==
            IF a2.raised THEN [wrote |-> 1, db |-> a1.db]
            ELSE [wrote |-> 2,
                  db |-> UpdateConversationMessageCount(a2.db, cid,
                                                        sf = 3).db]
        First(cid, a1) ==
            IF a1.raised THEN [wrote |-> 0, db |-> d]
            ELSE Second(cid, a1,
                     AddMessage(a1.db, cid, task.response.role,
                                task.response.content,
                                task.response.metadata, sf = 2, t))
    IN  IF task.user \notin DOMAIN lc
             \/ "conversation_id" \notin DOMAIN lc[task.user].metadata
        THEN [wrote |-> 0, db |-> d]
        ELSE First(lc[task.user].metadata["conversation_id"],
                   AddMessage(d, lc[task.user].metadata["conversation_id"],
                              task.message.role, task.message.content,
                              task.message.metadata, sf = 1, t))

\* ------------------------------------------------------------- the machine
\* what log keeps of a call: its number (n), the call before it on the same
\* user (prev), the faults that hit a backend call it issued, its outcome,
\* for update_context the exchange, for clear_context the context that was
\* cached, for get_context the payload its Redis GET returned
LogRecord(n, op, prev, rf, df, raised, ret, served, tiers, failed, ex, held) ==
    [n |-> n, op |-> op, prev |-> prev, rf |-> rf, df |-> df,
     raised |-> raised, ret |-> ret, served |-> served, tiers |-> tiers,
     failed |-> failed, ex |-> ex, held |-> held]

NoCall ==
    LogRecord(0, "none", "none", {}, 0, FALSE, None, "none", <<>>, FALSE,
              None, None)

\* the Redis commands among rf that the call issued
IssuedFaults(rf, tiers, extra) ==
    {c \in rf : \/ c = "get" /\ \E i \in 1..Len(tiers) : tiers[i] = "redis_get"
                \/ c = "setex" /\ (extra \/ \E i \in 1..Len(tiers) :
                                                tiers[i] = "redis_set")
                \/ c = "delete" /\ extra}

\* the store step that failed, when the call loaded from the store
IssuedDbFault(df, tiers) ==
    IF \E i \in 1..Len(tiers) : tiers[i] = "db_load"
    THEN (IF db_initialized THEN df ELSE 1) ELSE 0

NoSince == [h0 |-> <<>>, app |-> <<>>]

\* what mlog keeps of a MemoryManager call: the operation and its
\* arguments, the store step that failed, the entries it built, what it
\* returned, whether it raised, whether the cache held the session
MemLogRecord(op, session, limit, query, fault, entries, ret, raised, cached) ==
    [op |-> op, session |-> session, limit |-> limit, query |-> query,
     fault |-> fault, entries |-> entries, ret |-> ret, raised |-> raised,
     cached |-> cached]

NoMemCall == MemLogRecord("none", "", 0, <<>>, 0, <<>>, <<>>, FALSE, FALSE)

\* MemoryManager.__init__ with the store enabled, before any call
MemIdle ==
    /\ use_postgres = TRUE
    /\ conversations = <<>>
    /\ last_cleanup = DateTime(0, 0)
    /\ files = <<>>
    /\ mcalls = 0
    /\ mlog = NoMemCall
    /\ added = <<>>

\* what clog keeps of a RedisCacheManager call: the operation, whether the
\* client was there, whether a step of its try body failed, what the call
\* returned, whether it raised
CacheLogRecord(op, present, failed, ret, raised) ==
    [op |-> op, present |-> present, failed |-> failed, ret |-> ret,
     raised |-> raised]

NoCacheCall == CacheLogRecord("none", FALSE, FALSE, None, FALSE)

\* RedisCacheManager.__init__: the counters at zero
NoStats == [hits |-> 0, misses |-> 0, sets |-> 0, deletes |-> 0, errors |-> 0]

\* RedisCacheManager.__init__, before initialize()
CacheIdle ==
    /\ cache_client = FALSE
    /\ cache = <<>>
    /\ stats = NoStats
    /\ ccalls = 0
    /\ clog = NoCacheCall

Threads == {"t1", "t2"}

\* an executor thread: the operation it runs and its argument, what its
\* first query found, what the call returned, whether it raised, the calls
\* it has run, whether the connection failed under it, the user_id argument
\* of get_or_create_session (0 for the other operations)
ThreadRecord(pc, op, key, local, ret, raised, calls) ==
    [pc |-> pc, op |-> op, key |-> key, local |-> local, ret |-> ret,
     raised |-> raised, calls |-> calls, lost |-> FALSE, user |-> 0]

IdleThread == ThreadRecord("idle", "none", "", None, 0, FALSE, 0)

ThreadsIdle == threads = [th \in Threads |-> IdleThread]

\* no coordinator call is awaiting a backend
NoWait == [op |-> "none", user |-> "", rf |-> {}, df |-> 0, pos |-> 0]

WaitIdle == waiting = NoWait

\* the second process before its first call
PeerIdle ==
    /\ peer_cache = <<>>
    /\ peer_cache_ttl = <<>>
    /\ plog = NoCall

\* the coroutines of the event loop
Coros == {"a", "b"}

\* a coroutine: where it is suspended (pc), the user and the exchange of
\* its update_context, the context object it holds and whether that object
\* is the one the local cache refers to (shared), the payload of the SETEX
\* it awaits, the calls it has made, the coroutines that were in flight
\* during its call (over)
IdleCoro ==
    [pc |-> "idle", user |-> "", ex |-> None, ctx |-> None, shared |-> FALSE,
     payload |-> None, calls |-> 0, over |-> {}]

CorosIdle == coros = [c \in Coros |-> IdleCoro]

\* the components the two managers do not touch, before any call
ExtIdle == CacheIdle /\ ThreadsIdle /\ WaitIdle /\ PeerIdle /\ CorosIdle

DefaultSerIn == ConversationContext("u1", SessionOfUser("u1"), <<>>, <<>>)

Init ==
    /\ now = 0
    /\ redis_client \in BOOLEAN
    /\ db_initialized \in BOOLEAN
    /\ local_cache = <<>>
    /\ local_cache_ttl = <<>>
    /\ redis_store = <<>>
    /\ db = EmptyDb
    /\ tasks = <<>>
    /\ ncalls = 0
    /\ log = [u \in Users |-> NoCall]
    /\ since = [u \in Users |-> NoSince]
    /\ serIn = DefaultSerIn
    /\ serOut = None
    /\ MemIdle
    /\ ExtIdle

\* get_context from its first line to its return: the caches, the store
\* and the log after the call
GetContextDone(u, rf, df) ==
    \E g \in {GetContextCall(u, rf, df)} :
    /\ ncalls < MaxCalls
    /\ ncalls' = ncalls + 1
    /\ local_cache' = g.lc
    /\ local_cache_ttl' = g.lttl
    /\ redis_store' = g.rs
    /\ db' = g.db
    /\ log' = [log EXCEPT ![u] =
                  LogRecord(ncalls + 1, "get", log[u].op,
                            IssuedFaults(rf, g.tiers, FALSE),
                            IssuedDbFault(df, g.tiers), g.raised, g.ret,
                            g.served, g.tiers, g.failed, None,
                            IF Len(g.tiers) > 1 /\ g.tiers[2] = "redis_get"
                                  /\ "get" \notin rf
                            THEN RedisGet(redis_store, u, now) ELSE None)]
    /\ since' = [since EXCEPT ![u] =
                    IF g.raised \/ g.served = "local" THEN @
                    ELSE [h0 |-> g.ret[1].history, app |-> <<>>]]
    /\ UNCHANGED <<now, redis_client, db_initialized, tasks, serIn, serOut>>

GetContext(u, rf, df) ==
    /\ GetContextDone(u, rf, df)
    /\ UNCHANGED <<memVars, extVars>>

\* update_context from its first line to its return
UpdateContextDone(u, rf, df) ==
    \E ex \in {Exchange(ncalls + 1)} :
    \E c \in {UpdateContextCall(u, ex[1], ex[2], rf, df)} :
    /\ ncalls < MaxCalls
    /\ ncalls' = ncalls + 1
    /\ local_cache' = c.lc
    /\ local_cache_ttl' = c.lttl
    /\ redis_store' = c.rs
    /\ db' = c.db
    /\ tasks' = c.tasks
    /\ log' = [log EXCEPT ![u] =
                  LogRecord(ncalls + 1, "update", log[u].op,
                            IssuedFaults(rf, c.get.tiers, redis_client),
                            IssuedDbFault(df, c.get.tiers), c.raised, None,
                            c.get.served, c.get.tiers, c.get.failed, Some(ex),
                            None)]
    /\ since' = [since EXCEPT ![u] =
                    IF c.raised THEN @
                    ELSE [h0 |-> IF c.get.served = "local" THEN @.h0
                                 ELSE c.get.ret[1].history,
                          app |-> (IF c.get.served = "local" THEN @.app
                                   ELSE <<>>) \o <<ex[1], ex[2]>>]]
    /\ UNCHANGED <<now, redis_client, db_initialized, serIn, serOut>>

UpdateContext(u, rf, df) ==
    /\ UpdateContextDone(u, rf, df)
    /\ UNCHANGED <<memVars, extVars>>

ClearContext(u, rf) ==
    \E c \in {ClearContextCall(u, rf)} :
    /\ ncalls < MaxCalls
    /\ ncalls' = ncalls + 1
    /\ local_cache' = c.lc
    /\ local_cache_ttl' = c.lttl
    /\ redis_store' = c.rs
    /\ db' = c.db
    /\ log' = [log EXCEPT ![u] =
                  LogRecord(ncalls + 1, "clear", log[u].op,
                            IssuedFaults(rf, <<>>, redis_client), 0, c.raised,
                            None, "none", <<>>, FALSE, None,
                            IF u \in DOMAIN local_cache
                            THEN Some(local_cache[u]) ELSE None)]
    /\ since' = [since EXCEPT ![u] = NoSince]
    /\ UNCHANGED <<now, redis_client, db_initialized, tasks, serIn, serOut>>
    /\ UNCHANGED <<memVars, extVars>>

\* the event loop runs the detached task i
SaveToDbAsync(i, sf) ==
    \E r \in {SaveToDbAsyncCall(tasks[i], local_cache, db,
                                IF db_initialized THEN sf ELSE 1, now)} :
    /\ db' = r.db
    /\ tasks' = SubSeq(tasks, 1, i - 1) \o SubSeq(tasks, i + 1, Len(tasks))
    /\ UNCHANGED <<now, redis_client, db_initialized, local_cache,
                   local_cache_ttl, redis_store, ncalls, log, since,
                   serIn, serOut>>
    /\ UNCHANGED <<memVars, extVars>>

\* time passes (the clock starts with the first call)
Tick ==
    /\ now < MaxTime
    /\ ncalls > 0
    /\ now' = now + 1
    /\ UNCHANGED <<redis_client, db_initialized, local_cache, local_cache_ttl,
                   redis_store, db, tasks, ncalls, log, since, serIn,
                   serOut>>
    /\ UNCHANGED <<memVars, extVars>>

\* the payload under the key of u is replaced by one this version cannot
\* read (another writer of the shared Redis)
CorruptPayload(u, kind) ==
    /\ redis_client
    /\ RedisGet(redis_store, u, now) # None
    /\ redis_store' = [redis_store EXCEPT ![u].data = BadPayload(kind)]
    /\ UNCHANGED <<now, redis_client, db_initialized, local_cache,
                   local_cache_ttl, db, tasks, ncalls, log, since, serIn,
                   serOut>>
    /\ UNCHANGED <<memVars, extVars>>

\* store steps that can fail (0: none does)
DbFaults == 0..4

\* steps of the detached save that can fail (0: none does)
SaveFaults == 0..3

\* Redis is reachable during a call, or every command of the call fails
RedisFaults == {{}, {"get", "setex", "delete"}}

\* the user whose calls are explored in full: reads, updates and clears,
\* each against healthy and failing backends.  The other users only read,
\* against healthy backends: they are there to own cache entries and rows
\* of their own
FaultUsers == {"u1"}

RedisFaultsOf(u) == IF u \in FaultUsers THEN RedisFaults ELSE {{}}

DbFaultsOf(u) == IF u \in FaultUsers THEN DbFaults ELSE {0}

Next ==
    \/ \E u \in Users : \E rf \in RedisFaultsOf(u), df \in DbFaultsOf(u) :
          GetContext(u, rf, df)
    \/ \E u \in FaultUsers, rf \in RedisFaults, df \in DbFaults :
          UpdateContext(u, rf, df)
    \/ \E u \in FaultUsers, rf \in RedisFaults : ClearContext(u, rf)
    \/ \E i \in 1..Len(tasks), sf \in SaveFaults : SaveToDbAsync(i, sf)
    \/ Tick
    \/ \E u \in FaultUsers, kind \in BadPayloadKinds : CorruptPayload(u, kind)

Spec == Init /\ [][Next]_vars

\* ------------------------------------------- the serialization round trip
\* _serialize_context and _deserialize_context on their own: a context is
\* drawn from a bounded set of valid contexts and taken through the round
\* trip, directly and by way of the Redis key
MaxSerLen == 2

SerTimestamps == {None, Some(DateTime(1, 0)), Some(DateTime(1, 500))}

SerMessages ==
    {Message(1, role, ts, md) :
        role \in {"user", "assistant", "system"}, ts \in SerTimestamps,
        md \in {"None", "{test}"}}

SerHistories == UNION {[1..n -> SerMessages] : n \in 0..MaxSerLen}

SerContexts ==
    {ConversationContext(u, sid, h, md) :
        u \in Users, sid \in {SessionOfUser("u1"), SessionOfTime(1)},
        h \in SerHistories,
        md \in {[last_updated |-> 1, conversation_id |-> 1],
                [last_updated |-> 2, conversation_id |-> 1]}}

InitSer ==
    /\ now = 0
    /\ redis_client = TRUE
    /\ db_initialized = TRUE
    /\ local_cache = <<>>
    /\ local_cache_ttl = <<>>
    /\ redis_store = <<>>
    /\ db = EmptyDb
    /\ tasks = <<>>
    /\ ncalls = 0
    /\ log = [u \in Users |-> NoCall]
    /\ since = [u \in Users |-> NoSince]
    /\ serIn \in SerContexts
    /\ serOut = None
    /\ MemIdle
    /\ ExtIdle

\* _deserialize_context(_serialize_context(serIn))
RoundTripDirect ==
    /\ serOut = None
    /\ serOut' = Some(DeserializeContext(SerializeContext(serIn)))
    /\ UNCHANGED <<now, redis_client, db_initialized, local_cache,
                   local_cache_ttl, redis_store, db, tasks, ncalls, log,
                   since, serIn>>
    /\ UNCHANGED <<memVars, extVars>>

\* _set_redis_cache(serIn.user_id, serIn)
RoundTripStore ==
    /\ serOut = None
    /\ serIn.user_id \notin DOMAIN redis_store
    /\ redis_store' = SetRedisCache(redis_client, redis_store, serIn.user_id,
                                    serIn, {}, now).store
    /\ UNCHANGED <<now, redis_client, db_initialized, local_cache,
                   local_cache_ttl, db, tasks, ncalls, log, since, serIn,
                   serOut>>
    /\ UNCHANGED <<memVars, extVars>>

\* _get_from_redis_cache(serIn.user_id)
RoundTripFetch ==
    \E g \in {GetFromRedisCache(redis_client, redis_store, serIn.user_id, {},
                                now)} :
    /\ serOut = None
    /\ g.value # None
    /\ serOut' = g.value
    /\ UNCHANGED <<now, redis_client, db_initialized, local_cache,
                   local_cache_ttl, redis_store, db, tasks, ncalls, log,
                   since, serIn>>
    /\ UNCHANGED <<memVars, extVars>>

NextSer ==
    \/ RoundTripDirect
    \/ RoundTripStore
    \/ RoundTripFetch

SpecSer == InitSer /\ [][NextSer]_vars

\* =========================================================== MemoryManager
\* The MemoryCoordinator (core/memory/memory.py): the in-process cache
\* _conversations, the PostgreSQL store it shares with the ContextManager,
\* and one JSON file per session as fallback.  A text is a sequence of
\* characters.  limit = None is limit 0 (both are falsy in the code).  The
\* calls of one MemoryManager follow one another; the clock readings of a
\* call are Clock(0), Clock(1), ...

MaxMemCalls == 3
\* configuration, scaled down: retention_days (default 30) and the hour
\* between two retention sweeps, in ticks of the clock
RetentionTime == 2
CleanupEvery == 1

MemSessions == {"s1", "s2"}

\* the k-th reading of datetime.now() in the current call
Clock(k) == DateTime(now, 8 * mcalls + k)

\* a < b on datetimes
DateTimeLess(a, b) == a.s < b.s \/ (a.s = b.s /\ a.us < b.us)

\* a str.lower that changes nothing: the search of C20 does not survive it
LowerKeepCase(text) == text

\* str.lower()
Lower(text) ==
    [i \in 1..Len(text) |->
        CASE text[i] = "M" -> "m"
          [] text[i] = "X" -> "x"
          [] text[i] = "Y" -> "y"
          [] OTHER -> text[i]]

\* needle in hay
Contains(hay, needle) ==
    \E i \in 0..(Len(hay) - Len(needle)) :
        SubSeq(hay, i + 1, i + Len(needle)) = needle

\* dataclass ConversationEntry
ConversationEntry(message, intent, response, timestamp, metadata) ==
    [message |-> message, intent |-> intent, response |-> response,
     timestamp |-> timestamp, metadata |-> metadata]

\* dict.get(key, [])
EntriesOf(f, session_id) ==
    IF session_id \in DOMAIN f THEN f[session_id] ELSE <<>>

\* ---------------------------------------------------------- FallbackFileStore
\* _save_to_local: the item appended to the JSON array
SerializeEntry(entry) ==
    [message |-> SerializeMessage(entry.message),
     intent |-> entry.intent,
     response |-> entry.response,
     timestamp |-> IsoFormat(entry.timestamp),
     metadata |-> entry.metadata]

\* _load_from_local: the entry built from an item
DeserializeEntry(item) ==
    ConversationEntry(DeserializeMessage(item.message), item.intent,
                      item.response, FromIsoFormat(item.timestamp),
                      item.metadata)

\* a _save_to_local that writes the new item first: C17 does not survive it
SaveToLocalFirst(fs, session_id, entry) ==
    (session_id :> (<<SerializeEntry(entry)>> \o EntriesOf(fs, session_id)))
        @@ fs

\* _save_to_local: read the array (or start one), append, write
SaveToLocal(fs, session_id, entry) ==
    (session_id :> Append(EntriesOf(fs, session_id), SerializeEntry(entry)))
        @@ fs

\* _load_from_local
LoadFromLocal(fs, session_id, limit) ==
    IF session_id \notin DOMAIN fs THEN <<>>
    ELSE LET entries == [i \in 1..Len(fs[session_id]) |->
                            DeserializeEntry(fs[session_id][i])]
         IN IF limit # 0 THEN LastN(entries, limit) ELSE entries

\* ------------------------------------------------------------------ retention
\* cleanup: cutoff_date = datetime.now() - timedelta(days=retention_days)
CutoffDate(t) == DateTime(t.s - RetentionTime, t.us)

\* cleanup: the entries of every cached session that are younger than the
\* cutoff; a session left without entries is deleted
CleanupCache(convs, cutoff) ==
    LET kept(sid) == SelectSeq(convs[sid],
                        LAMBDA entry : DateTimeLess(cutoff, entry.timestamp))
    IN [sid \in {x \in DOMAIN convs : kept(x) # <<>>} |-> kept(sid)]

\* a _cleanup_local that rewrites no file: C21 does not survive it
CleanupLocalKeepFiles(fs, cutoff) == fs

\* _cleanup_local: the same on every file; a file left empty is unlinked
CleanupLocal(fs, cutoff) ==
    LET kept(sid) == SelectSeq(fs[sid],
                        LAMBDA item : DateTimeLess(cutoff,
                                          FromIsoFormat(item.timestamp)))
    IN [sid \in {x \in DOMAIN fs : kept(x) # <<>>} |-> kept(sid)]

\* cleanup at clock reading t: the cache, then the files
\* (_cleanup_postgres deletes nothing), then _last_cleanup
CleanupCall(convs, fs, t) ==
    [convs |-> CleanupCache(convs, CutoffDate(t)),
     files |-> CleanupLocal(fs, CutoffDate(t)),
     last |-> t]

\* _cleanup_if_needed at clock reading t: a sweep when the last one is more
\* than CleanupEvery back
CleanupIfNeeded(convs, fs, last, t) ==
    IF DateTimeLess(DateTime(last.s + CleanupEvery, last.us), t)
    THEN CleanupCall(convs, fs, t)
    ELSE [convs |-> convs, files |-> fs, last |-> last]

\* ------------------------------------------- MemoryManager over the store
\* MemoryManager._get_or_create_conversation: the latest conversation of
\* the session created inside the reuse window (no other filter), or a new
\* one.  Any exception is logged and None returned (found is FALSE)
MemGetOrCreateConversation(d, session_id, fail, t) ==
    IF fail THEN [found |-> FALSE, db |-> d, id |-> 0]
    ELSE LET Reused(recent) ==
                 IF recent # None
                 THEN [found |-> TRUE, db |-> d, id |-> recent[1]]
                 ELSE [found |-> TRUE,
                       db |-> CreateConversation(d, session_id, t).db,
                       id |-> CreateConversation(d, session_id, t).id]
         IN Reused(RecentConversation(d, session_id, t))

\* _save_to_postgres: user, session, conversation, message row.  mf is the
\* step that raises (0: none; a store that is not initialized raises at the
\* first).  Every exception, the AttributeError on a None conversation
\* included, is logged and nothing else is done with the entry
SaveToPostgres(d, initialized, session_id, entry, mf, t) ==
    LET WithMessage(conv, a) ==
            IF a.raised THEN [saved |-> FALSE, db |-> conv.db]
            ELSE [saved |-> TRUE, db |-> a.db]
        WithConversation(sess, conv) ==
            IF ~conv.found THEN [saved |-> FALSE, db |-> conv.db]
            ELSE WithMessage(conv,
                     AddMessage(conv.db, conv.id, entry.message.role,
                                entry.message.content, entry.metadata,
                                mf = 4, t))
        WithSession(user, sess) ==
            IF sess.raised THEN [saved |-> FALSE, db |-> user.db]
            ELSE WithConversation(sess,
                     MemGetOrCreateConversation(sess.db, sess.id, mf = 3, t))
        WithUser(user) ==
            IF user.raised THEN [saved |-> FALSE, db |-> d]
            ELSE WithSession(user,
                     GetOrCreateSession(user.db, user.id, session_id, mf = 2))
    IN  WithUser(GetOrCreateUser(d, session_id, mf = 1 \/ ~initialized))

\* manager.py: class DatabaseManager defines no get_user_conversations
\* (models.py has a module function of that name), so the attribute lookup
\* on db_manager raises AttributeError
DbManagerHasGetUserConversations == FALSE

\* models.py get_user_conversations: the conversations of the sessions of
\* the user
UserConversations(d, user_id) ==
    {i \in 1..Len(d.conversations) :
        /\ d.conversations[i].session_id \in 1..Len(d.sessions)
        /\ d.sessions[d.conversations[i].session_id].user_id = user_id}

\* _load_from_postgres, the part after the conversations are found: the
\* rows of the conversation as entries stamped at their construction
RowsToEntries(rows, t) ==
    [i \in 1..Len(rows) |->
        ConversationEntry(
            Message(rows[i].content, rows[i].role, Some(rows[i].timestamp),
                    "{}"),
            None, None, t, "{}")]

\* _load_from_postgres: user (created when missing), session by token,
\* conversations of the user, messages.  Every exception is logged and []
\* returned
LoadFromPostgres(d, initialized, session_id, limit, mf, t) ==
    LET WithSession(user, sess) ==
            IF sess = None \/ ~DbManagerHasGetUserConversations
            THEN [entries |-> <<>>, db |-> user.db]
            ELSE LET ids == UserConversations(user.db, user.id) IN
                 IF ids = {} THEN [entries |-> <<>>, db |-> user.db]
                 ELSE [entries |->
                          RowsToEntries(
                              GetConversationMessages(
                                  user.db,
                                  CHOOSE i \in ids : \A j \in ids : i >= j,
                                  limit, FALSE).rows, t),
                       db |-> user.db]
        WithUser(user) ==
            IF user.raised THEN [entries |-> <<>>, db |-> d]
            ELSE IF mf = 2 THEN [entries |-> <<>>, db |-> user.db]
            ELSE WithSession(user, GetSessionById(user.db, session_id))
    IN  WithUser(GetOrCreateUser(d, session_id, mf = 1 \/ ~initialized))

\* ------------------------------------------------- MemoryManager, the calls
\* add_message on the cache convs, the files fs, the store d and the last
\* sweep; the entry is stamped Clock(k).  The entry goes to the cache, then
\* to the store when the store is enabled and to the file of the session
\* otherwise, then the sweep runs when it is due
AddMessageCall(convs, fs, d, last, session_id, message, intent, response, mf, k) ==
    LET entry == ConversationEntry(message, intent, response, Clock(k), "{}")
        Swept(c, f, store) ==
            [entry |-> entry, db |-> store.db, saved |-> store.saved,
             sweep |-> CleanupIfNeeded(c, f, last, Clock(k + 1))]
    IN  IF use_postgres
        THEN Swept((session_id :> Append(EntriesOf(convs, session_id), entry))
                       @@ convs,
                   fs,
                   SaveToPostgres(d, db_initialized, session_id, entry, mf,
                                  now))
        ELSE Swept((session_id :> Append(EntriesOf(convs, session_id), entry))
                       @@ convs,
                   SaveToLocal(fs, session_id, entry),
                   [saved |-> FALSE, db |-> d])

\* get_conversation_history: the cached list when the session is cached
\* (its last limit entries when limit is truthy); otherwise what the
\* enabled backend loads, which is cached and returned
GetConversationHistoryCall(convs, fs, d, session_id, limit, mf) ==
    LET Loaded(l) ==
            [ret |-> l.entries, cached |-> FALSE, db |-> l.db,
             convs |-> (session_id :> l.entries) @@ convs]
    IN  IF session_id \in DOMAIN convs
        THEN [ret |-> IF limit # 0 THEN LastN(convs[session_id], limit)
                      ELSE convs[session_id],
              cached |-> TRUE, db |-> d, convs |-> convs]
        ELSE IF use_postgres
        THEN Loaded(LoadFromPostgres(d, db_initialized, session_id, limit,
                                     mf, Clock(0)))
        ELSE Loaded([entries |-> LoadFromLocal(fs, session_id, limit),
                     db |-> d])

\* save_turn: intent="response" of the assistant entry
ResponseIntent == <<"r", "e", "s", "p", "o", "n", "s", "e">>

\* a save_turn that adds the assistant message first: C18 does not survive
\* it
SaveTurnCallAssistantFirst(convs, fs, d, last, user_id, user_message, assistant_response, mf) ==
    LET Second(a1, a2) ==
            [first |-> a2.entry, second |-> a1.entry, db |-> a2.db,
             sweep |-> a2.sweep]
        First(a1) ==
            Second(a1,
                   AddMessageCall(a1.sweep.convs, a1.sweep.files, a1.db,
                                  a1.sweep.last, user_id,
                                  Message(user_message, "user",
                                          Some(Clock(1)), "{}"),
                                  None, Some(assistant_response), mf, 4))
    IN  First(AddMessageCall(convs, fs, d, last, user_id,
                             Message(assistant_response, "assistant",
                                     Some(Clock(0)), "{actions}"),
                             Some(ResponseIntent), None, mf, 2))

\* save_turn: the two messages are built, user first, then added one after
\* the other
SaveTurnCall(convs, fs, d, last, user_id, user_message, assistant_response, mf) ==
    LET Second(a1, a2) ==
            [first |-> a1.entry, second |-> a2.entry, db |-> a2.db,
             sweep |-> a2.sweep]
        First(a1) ==
            Second(a1,
                   AddMessageCall(a1.sweep.convs, a1.sweep.files, a1.db,
                                  a1.sweep.last, user_id,
                                  Message(assistant_response, "assistant",
                                          Some(Clock(1)), "{actions}"),
                                  Some(ResponseIntent), None, mf, 4))
    IN  First(AddMessageCall(convs, fs, d, last, user_id,
                             Message(user_message, "user", Some(Clock(0)),
                                     "{}"),
                             None, Some(assistant_response), mf, 2))

\* search_conversations: the test of one entry
EntryMatches(entry, query_lower) ==
    \/ Contains(Lower(entry.message.content), query_lower)
    \/ /\ entry.intent # None
       /\ entry.intent[1] # <<>>
       /\ Contains(Lower(entry.intent[1]), query_lower)
    \/ /\ entry.response # None
       /\ entry.response[1] # <<>>
       /\ Contains(Lower(entry.response[1]), query_lower)

\* list.sort(key=timestamp, reverse=True): entries of equal timestamp keep
\* their order
RECURSIVE SortByTimestampDesc(_)
SortByTimestampDesc(entries) ==
    IF Len(entries) <= 1 THEN entries
    ELSE LET i == CHOOSE i \in 1..Len(entries) :
                    \A j \in 1..Len(entries) :
                        \/ DateTimeLess(entries[j].timestamp,
                                        entries[i].timestamp)
                        \/ (entries[j].timestamp = entries[i].timestamp
                                /\ i <= j)
         IN <<entries[i]>> \o SortByTimestampDesc(
                SubSeq(entries, 1, i - 1)
                    \o SubSeq(entries, i + 1, Len(entries)))

\* the matching entries of the sessions in sids, session after session
RECURSIVE MatchingEntries(_, _, _)
MatchingEntries(convs, sids, query_lower) ==
    IF sids = {} THEN <<>>
    ELSE LET sid == CHOOSE x \in sids : TRUE IN
         SelectSeq(convs[sid],
                   LAMBDA entry : EntryMatches(entry, query_lower))
             \o MatchingEntries(convs, sids \ {sid}, query_lower)

\* search_conversations(query, user_id, limit); user_id = "" is None
SearchConversationsCall(convs, query, user_id, limit) ==
    LET results == SortByTimestampDesc(
                       MatchingEntries(
                           convs,
                           {sid \in DOMAIN convs :
                               user_id = "" \/ sid = user_id},
                           Lower(query)))
    IN  SubSeq(results, 1, Min(limit, Len(results)))

\* ---------------------------------------------- MemoryManager, the machine
\* what the callers pass to add_message: a user message without timestamp,
\* intent or response, and an assistant message with all of them
MemInputs ==
    {[message |-> Message(<<"M", "x">>, "user", None, "{}"),
      intent |-> None, response |-> None],
     [message |-> Message(<<"y">>, "assistant", Some(Clock(0)), "{}"),
      intent |-> Some(<<"m">>), response |-> Some(<<"X", "y">>)]}

\* what the callers pass to save_turn
MemTurns == {[user |-> <<"x", "M">>, assistant |-> <<"y", "m">>]}

\* queries of search_conversations: lower case, upper case, empty
MemQueries == {<<"m">>, <<"X", "Y">>, <<>>}

\* limits of get_conversation_history (0: None) and of search_conversations
HistoryLimits == {0, 1}

SearchLimits == {1, 2}

\* steps of the store path that can fail (0: none does): the first (the
\* store is unreachable) and the insert of the message row
MemFaults == {0, 1, 4}

\* the same for the load path, which ends at its third step
MemLoadFaults == {0, 1}

\* the session whose calls are explored in full, against healthy and
\* failing stores.  The other session only gets fault-free calls with the
\* first input: it is there to own cache entries, rows and a file of its own
FaultSessions == {"s1"}

MemInputsOf(sid) ==
    IF sid \in FaultSessions THEN MemInputs
    ELSE {input \in MemInputs : input.intent = None}

MemFaultsOf(sid) == IF sid \in FaultSessions THEN MemFaults ELSE {0}

MemLoadFaultsOf(sid) == IF sid \in FaultSessions THEN MemLoadFaults ELSE {0}

\* the store step that failed in a call that went to the store
IssuedMemFault(mf) ==
    IF ~use_postgres THEN 0 ELSE IF db_initialized THEN mf ELSE 1

InitMem ==
    /\ now = 0
    /\ redis_client = FALSE
    /\ db_initialized \in BOOLEAN
    /\ local_cache = <<>>
    /\ local_cache_ttl = <<>>
    /\ redis_store = <<>>
    /\ db = EmptyDb
    /\ tasks = <<>>
    /\ ncalls = 0
    /\ log = [u \in Users |-> NoCall]
    /\ since = [u \in Users |-> NoSince]
    /\ serIn = DefaultSerIn
    /\ serOut = None
    /\ use_postgres \in BOOLEAN
    /\ conversations = <<>>
    /\ last_cleanup = DateTime(0, 0)
    /\ files = <<>>
    /\ mcalls = 0
    /\ mlog = NoMemCall
    /\ added = <<>>
    /\ ExtIdle

MemoryAddMessage(session_id, input, mf) ==
    \E a \in {AddMessageCall(conversations, files, db, last_cleanup,
                             session_id, input.message, input.intent,
                             input.response, mf, 0)} :
    /\ mcalls < MaxMemCalls
    /\ mcalls' = mcalls + 1
    /\ conversations' = a.sweep.convs
    /\ files' = a.sweep.files
    /\ last_cleanup' = a.sweep.last
    /\ db' = a.db
    /\ mlog' = MemLogRecord("add", session_id, 0, <<>>, IssuedMemFault(mf),
                            <<a.entry>>, <<>>, FALSE,
                            session_id \in DOMAIN conversations)
    /\ added' = (session_id :> Append(EntriesOf(added, session_id), a.entry))
                    @@ added
    /\ UNCHANGED <<now, db_initialized, use_postgres>>
    /\ UNCHANGED <<ctxVars, extVars>>

GetConversationHistory(session_id, limit, mf) ==
    \E g \in {GetConversationHistoryCall(conversations, files, db,
                                         session_id, limit, mf)} :
    /\ mcalls < MaxMemCalls
    /\ mcalls' = mcalls + 1
    /\ conversations' = g.convs
    /\ db' = g.db
    /\ mlog' = MemLogRecord("history", session_id, limit, <<>>,
                            IF g.cached THEN 0 ELSE IssuedMemFault(mf),
                            <<>>, g.ret, FALSE, g.cached)
    /\ UNCHANGED <<now, db_initialized, use_postgres, files, last_cleanup,
                   added>>
    /\ UNCHANGED <<ctxVars, extVars>>

SaveTurn(user_id, turn, mf) ==
    \E t \in {SaveTurnCall(conversations, files, db, last_cleanup, user_id,
                           turn.user, turn.assistant, mf)} :
    /\ mcalls < MaxMemCalls
    /\ mcalls' = mcalls + 1
    /\ conversations' = t.sweep.convs
    /\ files' = t.sweep.files
    /\ last_cleanup' = t.sweep.last
    /\ db' = t.db
    /\ mlog' = MemLogRecord("turn", user_id, 0, <<>>, IssuedMemFault(mf),
                            <<t.first, t.second>>, <<>>, FALSE,
                            user_id \in DOMAIN conversations)
    /\ added' = (user_id :> (EntriesOf(added, user_id)
                                \o <<t.first, t.second>>)) @@ added
    /\ UNCHANGED <<now, db_initialized, use_postgres>>
    /\ UNCHANGED <<ctxVars, extVars>>

SearchConversations(query, user_id, limit) ==
    /\ mcalls < MaxMemCalls
    /\ mcalls' = mcalls + 1
    /\ mlog' = MemLogRecord("search", user_id, limit, query, 0, <<>>,
                            SearchConversationsCall(conversations, query,
                                                    user_id, limit),
                            FALSE, FALSE)
    /\ UNCHANGED <<now, db_initialized, db, use_postgres, conversations,
                   files, last_cleanup, added>>
    /\ UNCHANGED <<ctxVars, extVars>>

\* the entries of the sessions in sids, session after session
RECURSIVE AllEntries(_, _)
AllEntries(convs, sids) ==
    IF sids = {} THEN <<>>
    ELSE LET sid == CHOOSE x \in sids : TRUE IN
         convs[sid] \o AllEntries(convs, sids \ {sid})

\* cleanup() called by the owner of the manager; mlog keeps the cached
\* entries it removed
Cleanup ==
    \E c \in {CleanupCall(conversations, files, Clock(0))} :
    /\ mcalls < MaxMemCalls
    /\ mcalls' = mcalls + 1
    /\ conversations' = c.convs
    /\ files' = c.files
    /\ last_cleanup' = c.last
    /\ mlog' = MemLogRecord("cleanup", "", 0, <<>>, 0,
                            SelectSeq(AllEntries(conversations,
                                                 DOMAIN conversations),
                                LAMBDA entry :
                                    ~DateTimeLess(CutoffDate(Clock(0)),
                                                  entry.timestamp)),
                            <<>>, FALSE, FALSE)
    /\ UNCHANGED <<now, db_initialized, db, use_postgres, added>>
    /\ UNCHANGED <<ctxVars, extVars>>

\* the process is restarted: a new MemoryManager over the same store and
\* the same storage path, with an empty cache
Restart ==
    /\ conversations # <<>>
    /\ conversations' = <<>>
    /\ last_cleanup' = Clock(0)
    /\ mlog' = NoMemCall
    /\ UNCHANGED <<now, db_initialized, db, use_postgres, files, mcalls,
                   added>>
    /\ UNCHANGED <<ctxVars, extVars>>

\* time passes (the clock starts with the first call)
MemoryTick ==
    /\ now < MaxTime
    /\ mcalls > 0
    /\ now' = now + 1
    /\ UNCHANGED <<db_initialized, db, use_postgres, conversations, files,
                   last_cleanup, mcalls, mlog, added>>
    /\ UNCHANGED <<ctxVars, extVars>>

NextMem ==
    \/ \E sid \in MemSessions :
       \E input \in MemInputsOf(sid), mf \in MemFaultsOf(sid) :
          MemoryAddMessage(sid, input, mf)
    \/ \E sid \in MemSessions :
       \E limit \in HistoryLimits, mf \in MemLoadFaultsOf(sid) :
          GetConversationHistory(sid, limit, mf)
    \/ \E sid \in FaultSessions, turn \in MemTurns, mf \in MemLoadFaults :
          SaveTurn(sid, turn, mf)
    \/ \E query \in MemQueries, user_id \in {""} \cup FaultSessions,
          limit \in SearchLimits :
          SearchConversations(query, user_id, limit)
    \/ Cleanup
    \/ Restart
    \/ MemoryTick

SpecMem == InitMem /\ [][NextMem]_vars

\* ------------------------------------------------ the manager with clear
\* _clear_from_local: the file of the session is unlinked when it exists
ClearFromLocal(fs, session_id) ==
    [sid \in DOMAIN fs \ {session_id} |-> fs[sid]]

\* clear_session: the cached list of the session goes, _clear_from_postgres
\* deletes nothing, the file of the session is unlinked
ClearSessionCall(convs, fs, session_id) ==
    [convs |-> [sid \in DOMAIN convs \ {session_id} |-> convs[sid]],
     files |-> ClearFromLocal(fs, session_id)]

\* clear_session(session_id); added forgets the entries of the session
ClearSession(session_id) ==
    \E c \in {ClearSessionCall(conversations, files, session_id)} :
    /\ mcalls < MaxMemCalls
    /\ mcalls' = mcalls + 1
    /\ conversations' = c.convs
    /\ files' = c.files
    /\ mlog' = MemLogRecord("clear", session_id, 0, <<>>, 0, <<>>, <<>>,
                            FALSE, session_id \in DOMAIN conversations)
    /\ added' = [sid \in DOMAIN added \ {session_id} |-> added[sid]]
    /\ UNCHANGED <<now, db_initialized, db, use_postgres, last_cleanup>>
    /\ UNCHANGED <<ctxVars, extVars>>

NextMemClear ==
    \/ NextMem
    \/ \E sid \in MemSessions : ClearSession(sid)

SpecMemClear == InitMem /\ [][NextMemClear]_vars

\* ======================================================= RedisCacheManager
\* core/cache/redis_manager.py: the general cache over the Redis server

MaxCacheCalls == 3
\* default_ttl (default 3600 s), in ticks of the clock
DefaultTtl == 1

CacheKeys == {"k1", "k2"}

\* Python values given to set: a dict, a dict json.dumps rejects, the
\* strings "a" and "7", the integer 7
CacheValues ==
    {[kind |-> "dict", v |-> "a"], [kind |-> "baddict", v |-> "a"],
     [kind |-> "str", v |-> "a"], [kind |-> "str", v |-> "7"],
     [kind |-> "int", v |-> "7"]}

\* the text set stores: json.dumps of a dict or a list, str() of anything
\* else; the text 7 is the JSON document 7 whichever value it came from
CacheDumps(value) ==
    IF value.kind = "dict" THEN [kind |-> "json", doc |-> value]
    ELSE IF value.v = "7"
    THEN [kind |-> "json", doc |-> [kind |-> "int", v |-> "7"]]
    ELSE [kind |-> "text", doc |-> value]

\* what get makes of stored bytes: json.loads, or the decoded text when the
\* bytes are no JSON document
CacheLoads(data) ==
    IF data.kind = "json" THEN data.doc
    ELSE [kind |-> "str", v |-> data.doc.v]

\* bytes that are not UTF-8, written by another program
BinaryPayload == [kind |-> "binary", doc |-> [kind |-> "bytes", v |-> ""]]

\* the keys of the server whose time to live has not run out
LiveKeys(store, t) == {k \in DOMAIN store : t < store[k].exp}

\* an except clause of the manager: the exception is logged, errors is
\* incremented where the clause does so, the miss value is returned
CacheHandled(b, miss, counted) ==
    IF b.raised
    THEN [store |-> b.store,
          stats |-> IF counted THEN [b.stats EXCEPT !.errors = @ + 1]
                    ELSE b.stats,
          ret |-> miss, raised |-> FALSE, failed |-> TRUE]
    ELSE [store |-> b.store, stats |-> b.stats, ret |-> b.ret,
          raised |-> FALSE, failed |-> FALSE]

\* is_available: False without a client or when PING fails
CacheIsAvailableBody(present, store, st, fault) ==
    IF ~present THEN [store |-> store, stats |-> st, ret |-> FALSE,
                      raised |-> FALSE]
    ELSE IF fault = 1 THEN [store |-> store, stats |-> st, ret |-> FALSE,
                            raised |-> TRUE]
    ELSE [store |-> store, stats |-> st, ret |-> TRUE, raised |-> FALSE]

CacheIsAvailable(present, store, st, fault) ==
    CacheHandled(CacheIsAvailableBody(present, store, st, fault), FALSE,
                 FALSE)

\* the try body of get
CacheGetBody(present, store, st, key, fault, t) ==
    IF ~present THEN [store |-> store, stats |-> st, ret |-> None,
                      raised |-> FALSE]
    ELSE IF fault = 1 THEN [store |-> store, stats |-> st, ret |-> None,
                            raised |-> TRUE]
    ELSE LET data == RedisGet(store, key, t) IN
         IF data = None
         THEN [store |-> store, stats |-> [st EXCEPT !.misses = @ + 1],
               ret |-> None, raised |-> FALSE]
         ELSE IF data[1].kind = "binary"
         THEN [store |-> store, stats |-> st, ret |-> None, raised |-> TRUE]
         ELSE [store |-> store, stats |-> [st EXCEPT !.hits = @ + 1],
               ret |-> Some(CacheLoads(data[1])), raised |-> FALSE]

\* get
CacheGet(present, store, st, key, fault, t) ==
    CacheHandled(CacheGetBody(present, store, st, key, fault, t), None, TRUE)

\* the try body of set; ttl is None or a number
CacheSetBody(present, store, st, key, value, ttl, fault, t) ==
    IF ~present THEN [store |-> store, stats |-> st, ret |-> FALSE,
                      raised |-> FALSE]
    ELSE IF value.kind = "baddict" \/ fault = 1
    THEN [store |-> store, stats |-> st, ret |-> FALSE, raised |-> TRUE]
    ELSE [store |-> RedisSetex(store, key,
                               IF ttl = None THEN DefaultTtl ELSE ttl[1],
                               CacheDumps(value), t),
          stats |-> [st EXCEPT !.sets = @ + 1],
          ret |-> TRUE, raised |-> FALSE]

\* set
CacheSet(present, store, st, key, value, ttl, fault, t) ==
    CacheHandled(CacheSetBody(present, store, st, key, value, ttl, fault, t),
                 FALSE, TRUE)

\* the try body of delete: deletes counts the call, not the keys removed
CacheDeleteBody(present, store, st, key, fault, t) ==
    IF ~present THEN [store |-> store, stats |-> st, ret |-> FALSE,
                      raised |-> FALSE]
    ELSE IF fault = 1 THEN [store |-> store, stats |-> st, ret |-> FALSE,
                            raised |-> TRUE]
    ELSE [store |-> RedisDelete(store, key),
          stats |-> [st EXCEPT !.deletes = @ + 1],
          ret |-> key \in LiveKeys(store, t), raised |-> FALSE]

\* delete
CacheDelete(present, store, st, key, fault, t) ==
    CacheHandled(CacheDeleteBody(present, store, st, key, fault, t), FALSE,
                 TRUE)

\* the try body of exists
CacheExistsBody(present, store, st, key, fault, t) ==
    IF ~present THEN [store |-> store, stats |-> st, ret |-> FALSE,
                      raised |-> FALSE]
    ELSE IF fault = 1 THEN [store |-> store, stats |-> st, ret |-> FALSE,
                            raised |-> TRUE]
    ELSE [store |-> store, stats |-> st,
          ret |-> key \in LiveKeys(store, t), raised |-> FALSE]

\* an exists without its handler: C22 does not survive it
CacheExistsUnhandled(present, store, st, key, fault, t) ==
    LET b == CacheExistsBody(present, store, st, key, fault, t) IN
    [store |-> b.store, stats |-> b.stats, ret |-> b.ret,
     raised |-> b.raised, failed |-> b.raised]

\* exists: its except clause counts nothing
CacheExists(present, store, st, key, fault, t) ==
    CacheHandled(CacheExistsBody(present, store, st, key, fault, t), FALSE,
                 FALSE)

\* the try body of expire
CacheExpireBody(present, store, st, key, ttl, fault, t) ==
    IF ~present THEN [store |-> store, stats |-> st, ret |-> FALSE,
                      raised |-> FALSE]
    ELSE IF fault = 1 THEN [store |-> store, stats |-> st, ret |-> FALSE,
                            raised |-> TRUE]
    ELSE IF key \in LiveKeys(store, t)
    THEN [store |-> [store EXCEPT ![key].exp = t + ttl], stats |-> st,
          ret |-> TRUE, raised |-> FALSE]
    ELSE [store |-> store, stats |-> st, ret |-> FALSE, raised |-> FALSE]

\* expire: its except clause counts nothing
CacheExpire(present, store, st, key, ttl, fault, t) ==
    CacheHandled(CacheExpireBody(present, store, st, key, ttl, fault, t),
                 FALSE, FALSE)

\* the loop of get_multiple over the keys and the values MGET returned
RECURSIVE MgetLoop(_, _, _, _, _)
MgetLoop(store, keys, st, result, t) ==
    IF keys = <<>>
    THEN [store |-> store, stats |-> st, ret |-> result, raised |-> FALSE]
    ELSE LET data == RedisGet(store, Head(keys), t) IN
         IF data = None
         THEN MgetLoop(store, Tail(keys), [st EXCEPT !.misses = @ + 1],
                       result, t)
         ELSE IF data[1].kind = "binary"
         THEN [store |-> store, stats |-> st, ret |-> result,
               raised |-> TRUE]
         ELSE MgetLoop(store, Tail(keys), [st EXCEPT !.hits = @ + 1],
                       (Head(keys) :> CacheLoads(data[1])) @@ result, t)

\* the try body of get_multiple
CacheGetMultipleBody(present, store, st, keys, fault, t) ==
    IF ~present \/ keys = <<>>
    THEN [store |-> store, stats |-> st, ret |-> <<>>, raised |-> FALSE]
    ELSE IF fault = 1 THEN [store |-> store, stats |-> st, ret |-> <<>>,
                            raised |-> TRUE]
    ELSE MgetLoop(store, keys, st, <<>>, t)

\* get_multiple
CacheGetMultiple(present, store, st, keys, fault, t) ==
    CacheHandled(CacheGetMultipleBody(present, store, st, keys, fault, t),
                 <<>>, TRUE)

\* the try body of set_multiple: every value is serialized, then one
\* pipeline of SETEX commands runs
CacheSetMultipleBody(present, store, st, data, ttl, fault, t) ==
    IF ~present \/ DOMAIN data = {}
    THEN [store |-> store, stats |-> st, ret |-> FALSE, raised |-> FALSE]
    ELSE IF (\E k \in DOMAIN data : data[k].kind = "baddict") \/ fault = 1
    THEN [store |-> store, stats |-> st, ret |-> FALSE, raised |-> TRUE]
    ELSE [store |->
              [k \in DOMAIN data |->
                  [data |-> CacheDumps(data[k]),
                   exp |-> t + (IF ttl = None THEN DefaultTtl ELSE ttl[1])]]
              @@ store,
          stats |-> [st EXCEPT !.sets = @ + Cardinality(DOMAIN data)],
          ret |-> TRUE, raised |-> FALSE]

\* set_multiple
CacheSetMultiple(present, store, st, data, ttl, fault, t) ==
    CacheHandled(CacheSetMultipleBody(present, store, st, data, ttl, fault,
                                      t), FALSE, TRUE)

\* the try body of clear_pattern; matching is the set of keys the pattern
\* matches; KEYS is command 1, DEL command 2
CacheClearPatternBody(present, store, st, matching, fault, t) ==
    IF ~present THEN [store |-> store, stats |-> st, ret |-> 0,
                      raised |-> FALSE]
    ELSE IF fault = 1 THEN [store |-> store, stats |-> st, ret |-> 0,
                            raised |-> TRUE]
    ELSE LET keys == matching \cap LiveKeys(store, t) IN
         IF keys = {}
         THEN [store |-> store, stats |-> st, ret |-> 0, raised |-> FALSE]
         ELSE IF fault = 2
         THEN [store |-> store, stats |-> st, ret |-> 0, raised |-> TRUE]
         ELSE [store |-> [k \in DOMAIN store \ keys |-> store[k]],
               stats |-> [st EXCEPT !.deletes = @ + Cardinality(keys)],
               ret |-> Cardinality(keys), raised |-> FALSE]

\* clear_pattern
CacheClearPattern(present, store, st, matching, fault, t) ==
    CacheHandled(CacheClearPatternBody(present, store, st, matching, fault,
                                       t), 0, TRUE)

\* ----------------------------------------------- RedisCacheManager machine
CacheFaults == {0, 1}

CacheTtls == {None, Some(2)}

\* the key lists of get_multiple, the dicts of set_multiple, the patterns
CacheKeyLists == {<<>>, <<"k1">>, <<"k1", "k2">>}

CacheDicts ==
    {<<>>, "k1" :> [kind |-> "dict", v |-> "a"],
     ("k1" :> [kind |-> "str", v |-> "7"])
         @@ ("k2" :> [kind |-> "baddict", v |-> "a"]),
     ("k1" :> [kind |-> "str", v |-> "a"])
         @@ ("k2" :> [kind |-> "int", v |-> "7"])}

CachePatterns == {CacheKeys, {"k1"}}

InitCache ==
    /\ now = 0
    /\ redis_client = FALSE
    /\ db_initialized = FALSE
    /\ local_cache = <<>>
    /\ local_cache_ttl = <<>>
    /\ redis_store = <<>>
    /\ db = EmptyDb
    /\ tasks = <<>>
    /\ ncalls = 0
    /\ log = [u \in Users |-> NoCall]
    /\ since = [u \in Users |-> NoSince]
    /\ serIn = DefaultSerIn
    /\ serOut = None
    /\ MemIdle
    /\ ExtIdle

\* the frame of a RedisCacheManager call that returned r
CacheCallDone(op, fault, r) ==
    /\ ccalls < MaxCacheCalls
    /\ ccalls' = ccalls + 1
    /\ cache' = r.store
    /\ stats' = r.stats
    /\ clog' = CacheLogRecord(op, cache_client, r.failed, r.ret, r.raised)
    /\ UNCHANGED <<now, db_initialized, db, cache_client>>
    /\ UNCHANGED <<ctxVars, memVars, dbVars, waitVars, peerVars, coVars>>

\* initialize(): the client is kept when PING answers, dropped otherwise
CacheInitialize(fault) ==
    /\ clog.op = "none"
    /\ ccalls < MaxCacheCalls
    /\ ccalls' = ccalls + 1
    /\ cache_client' = (fault = 0)
    /\ clog' = CacheLogRecord("initialize", cache_client, fault # 0,
                              fault = 0, FALSE)
    /\ UNCHANGED <<now, db_initialized, db, cache, stats>>
    /\ UNCHANGED <<ctxVars, memVars, dbVars, waitVars, peerVars, coVars>>

IsAvailable(fault) ==
    \E r \in {
              CacheIsAvailable(cache_client, cache, stats, fault)} :
        CacheCallDone("is_available", fault, r)

Get(key, fault) ==
    \E r \in {
              CacheGet(cache_client, cache, stats, key, fault, now)} :
        CacheCallDone("get", fault, r)

Set(key, value, ttl, fault) ==
    \E r \in {
              CacheSet(cache_client, cache, stats, key, value, ttl, fault, now)} :
        CacheCallDone("set", fault, r)

Delete(key, fault) ==
    \E r \in {
              CacheDelete(cache_client, cache, stats, key, fault, now)} :
        CacheCallDone("delete", fault, r)

Exists(key, fault) ==
    \E r \in {
              CacheExists(cache_client, cache, stats, key, fault, now)} :
        CacheCallDone("exists", fault, r)

Expire(key, ttl, fault) ==
    \E r \in {
              CacheExpire(cache_client, cache, stats, key, ttl, fault, now)} :
        CacheCallDone("expire", fault, r)

GetMultiple(keys, fault) ==
    \E r \in {
              CacheGetMultiple(cache_client, cache, stats, keys, fault, now)} :
        CacheCallDone("get_multiple", fault, r)

SetMultiple(data, ttl, fault) ==
    \E r \in {
              CacheSetMultiple(cache_client, cache, stats, data, ttl, fault,
              now)} :
        CacheCallDone("set_multiple", fault, r)

ClearPattern(matching, fault) ==
    \E r \in {
              CacheClearPattern(cache_client, cache, stats, matching, fault,
              now)} :
        CacheCallDone("clear_pattern", fault, r)

\* another program stores bytes that are not UTF-8 under the key
ForeignSet(key) ==
    /\ cache_client
    /\ key \notin DOMAIN cache
    /\ cache' = (key :> [data |-> BinaryPayload, exp |-> now + DefaultTtl])
                    @@ cache
    /\ UNCHANGED <<now, db_initialized, db, cache_client, stats, ccalls,
                   clog>>
    /\ UNCHANGED <<ctxVars, memVars, dbVars, waitVars, peerVars, coVars>>

\* time passes
CacheTick ==
    /\ now < MaxTime
    /\ ccalls > 0
    /\ now' = now + 1
    /\ UNCHANGED <<db_initialized, db>>
    /\ UNCHANGED <<ctxVars, memVars, cacheVars, dbVars, waitVars, peerVars,
                   coVars>>

NextCache ==
    \/ \E fault \in CacheFaults : CacheInitialize(fault)
    \/ \E fault \in CacheFaults : IsAvailable(fault)
    \/ \E key \in CacheKeys, fault \in CacheFaults : Get(key, fault)
    \/ \E key \in CacheKeys, value \in CacheValues, ttl \in CacheTtls,
          fault \in CacheFaults : Set(key, value, ttl, fault)
    \/ \E key \in CacheKeys, fault \in CacheFaults : Delete(key, fault)
    \/ \E key \in CacheKeys, fault \in CacheFaults : Exists(key, fault)
    \/ \E key \in CacheKeys, fault \in CacheFaults : Expire(key, 2, fault)
    \/ \E keys \in CacheKeyLists, fault \in CacheFaults :
          GetMultiple(keys, fault)
    \/ \E data \in CacheDicts, ttl \in CacheTtls, fault \in CacheFaults :
          SetMultiple(data, ttl, fault)
    \/ \E matching \in CachePatterns, fault \in {0, 1, 2} :
          ClearPattern(matching, fault)
    \/ \E key \in CacheKeys : ForeignSet(key)
    \/ CacheTick

SpecCache == InitCache /\ [][NextCache]_vars


\* ============================================ DatabaseManager in threads
\* core/database/manager.py: every method runs its *_sync function in an
\* executor thread (run_in_executor); a get_or_create_* is two such
\* functions, add_sync and update_sync read the conversation and later
\* commit (the session has autoflush off, nothing is written before commit)

MaxThreadCalls == 2

\* the store after one user opened one conversation
SeededDb ==
    [users |-> <<[username |-> "u1"]>>,
     sessions |-> <<[user_id |-> 1, session_token |-> SessionOfUser("u1")]>>,
     conversations |-> <<[session_id |-> 1, created_at |-> 0,
                          message_count |-> 0]>>,
     messages |-> <<>>]

\* create_user: INSERT and commit; users.username is unique, so the commit
\* raises IntegrityError when a row of that name is there
CreateUser(d, username, fail) ==
    IF fail \/ GetUserByUsername(d, username) # None
    THEN [raised |-> TRUE, db |-> d, id |-> 0]
    ELSE [raised |-> FALSE,
          db |-> [d EXCEPT !.users = Append(@, [username |-> username])],
          id |-> Len(d.users) + 1]

\* create_session: INSERT and commit; sessions.session_token is unique and
\* sessions.user_id is a foreign key to users.id
CreateSession(d, user_id, session_id, fail) ==
    IF fail \/ GetSessionById(d, session_id) # None
            \/ user_id \notin 1..Len(d.users)
    THEN [raised |-> TRUE, db |-> d, id |-> 0]
    ELSE [raised |-> FALSE,
          db |-> [d EXCEPT !.sessions =
                     Append(@, [user_id |-> user_id,
                                session_token |-> session_id])],
          id |-> Len(d.sessions) + 1]

\* the SELECT of add_sync: the conversation's message_count, if it exists
QueryMessageCount(d, conversation_id) ==
    IF conversation_id \in 1..Len(d.conversations)
    THEN Some(d.conversations[conversation_id].message_count) ELSE None

\* the commit of add_sync: the INSERT of the message and the UPDATE that
\* sets message_count to the value read plus one; without the conversation
\* the INSERT breaks the foreign key
AddSyncCommit(d, conversation_id, read, fail, t) ==
    IF fail \/ read = None
    THEN [raised |-> TRUE, db |-> d]
    ELSE [raised |-> FALSE,
          db |-> [d EXCEPT
                    !.messages =
                        Append(@, [conversation_id |-> conversation_id,
                                   role |-> "user",
                                   content |-> "m",
                                   timestamp |-> DateTime(t, Len(d.messages)),
                                   meta_data |-> "{}"]),
                    !.conversations[conversation_id].message_count =
                        read[1] + 1]]

\* the SELECT COUNT of update_sync
QueryRowCount(d, conversation_id) ==
    IF conversation_id \in 1..Len(d.conversations)
    THEN Some(Len(SelectSeq(d.messages,
                  LAMBDA row : row.conversation_id = conversation_id)))
    ELSE None

ThreadFree(th) ==
    /\ threads[th].pc \in {"idle", "done"}
    /\ threads[th].calls < MaxThreadCalls

\* the frame of a thread step
ThreadFrame ==
    /\ UNCHANGED <<now, db_initialized>>
    /\ UNCHANGED <<ctxVars, memVars, cacheVars, waitVars, peerVars, coVars>>

\* get_or_create_user, first half: get_user_by_username
GetUserByUsernameStep(th, username) ==
    /\ ThreadFree(th)
    /\ LET found == GetUserByUsername(db, username) IN
       threads' = [threads EXCEPT ![th] =
           ThreadRecord(IF found = None THEN "create_user" ELSE "done",
                        "get_or_create_user", username, found,
                        IF found = None THEN 0 ELSE found[1], FALSE,
                        @.calls + 1)]
    /\ UNCHANGED db
    /\ ThreadFrame

\* get_or_create_user, second half: create_user
CreateUserStep(th, fail) ==
    /\ threads[th].pc = "create_user"
    /\ \E r \in {CreateUser(db, threads[th].key, fail)} :
          /\ db' = r.db
          /\ threads' = [threads EXCEPT ![th].pc = "done", ![th].ret = r.id,
                                        ![th].raised = r.raised,
                                        ![th].lost = fail]
    /\ ThreadFrame

\* get_or_create_session, first half: get_session_by_id
GetSessionByIdStep(th, user_id, session_id) ==
    /\ ThreadFree(th)
    /\ LET found == GetSessionById(db, session_id) IN
       threads' = [threads EXCEPT ![th] =
           [ThreadRecord(IF found = None THEN "create_session" ELSE "done",
                         "get_or_create_session", session_id, found,
                         IF found = None THEN 0 ELSE found[1], FALSE,
                         @.calls + 1) EXCEPT !.user = user_id]]
    /\ UNCHANGED db
    /\ ThreadFrame

\* get_or_create_session, second half: create_session
CreateSessionStep(th, fail) ==
    /\ threads[th].pc = "create_session"
    /\ \E r \in {CreateSession(db, threads[th].user, threads[th].key,
                                fail)} :
          /\ db' = r.db
          /\ threads' = [threads EXCEPT ![th].pc = "done", ![th].ret = r.id,
                                        ![th].raised = r.raised,
                                        ![th].lost = fail]
    /\ ThreadFrame

\* add_message, add_sync up to its query of the conversation
AddSyncQueryStep(th, conversation_id) ==
    /\ ThreadFree(th)
    /\ threads' = [threads EXCEPT ![th] =
           ThreadRecord("add_commit", "add_message", conversation_id,
                        QueryMessageCount(db, conversation_id), 0, FALSE,
                        @.calls + 1)]
    /\ UNCHANGED db
    /\ ThreadFrame

\* add_message, the commit of add_sync
AddSyncCommitStep(th, fail) ==
    /\ threads[th].pc = "add_commit"
    /\ \E r \in {AddSyncCommit(db, threads[th].key, threads[th].local, fail,
                               now)} :
          /\ db' = r.db
          /\ threads' = [threads EXCEPT ![th].pc = "done",
                                        ![th].ret = Len(r.db.messages),
                                        ![th].raised = r.raised,
                                        ![th].lost = fail]
    /\ ThreadFrame

\* update_conversation_message_count, update_sync up to its COUNT
UpdateSyncCountStep(th, conversation_id) ==
    /\ ThreadFree(th)
    /\ LET read == QueryRowCount(db, conversation_id) IN
       threads' = [threads EXCEPT ![th] =
           ThreadRecord(IF read = None THEN "done" ELSE "update_commit",
                        "update_conversation_message_count",
                        conversation_id, read, 0, FALSE, @.calls + 1)]
    /\ UNCHANGED db
    /\ ThreadFrame

\* update_conversation_message_count, the commit of update_sync
UpdateSyncCommitStep(th) ==
    /\ threads[th].pc = "update_commit"
    /\ db' = [db EXCEPT !.conversations[threads[th].key].message_count =
                 threads[th].local[1]]
    /\ threads' = [threads EXCEPT ![th].pc = "done"]
    /\ ThreadFrame

ThreadUsernames == {"u1", "u2"}

ThreadTokens == {SessionOfUser("u1"), SessionOfUser("u2")}

\* the ids of the user rows the session calls are made for
ThreadUserIds == {1, 2}

ThreadConversations == {1, 2}

InitDb ==
    /\ now = 0
    /\ redis_client = FALSE
    /\ db_initialized = TRUE
    /\ local_cache = <<>>
    /\ local_cache_ttl = <<>>
    /\ redis_store = <<>>
    /\ db = SeededDb
    /\ tasks = <<>>
    /\ ncalls = 0
    /\ log = [u \in Users |-> NoCall]
    /\ since = [u \in Users |-> NoSince]
    /\ serIn = DefaultSerIn
    /\ serOut = None
    /\ MemIdle
    /\ ExtIdle

NextDb ==
    \/ \E th \in Threads, username \in ThreadUsernames :
          GetUserByUsernameStep(th, username)
    \/ \E th \in Threads, fail \in BOOLEAN : CreateUserStep(th, fail)
    \/ \E th \in Threads, user_id \in ThreadUserIds,
          session_id \in ThreadTokens :
          GetSessionByIdStep(th, user_id, session_id)
    \/ \E th \in Threads, fail \in BOOLEAN : CreateSessionStep(th, fail)
    \/ \E th \in Threads, conversation_id \in ThreadConversations :
          AddSyncQueryStep(th, conversation_id)
    \/ \E th \in Threads, fail \in BOOLEAN : AddSyncCommitStep(th, fail)
    \/ \E th \in Threads, conversation_id \in ThreadConversations :
          UpdateSyncCountStep(th, conversation_id)
    \/ \E th \in Threads : UpdateSyncCommitStep(th)

SpecDb == InitDb /\ [][NextDb]_vars

\* ================================================ calls awaiting a backend
\* get_context and update_context await their backends one after the
\* other: redis_client.get, the store load, redis_client.setex.  The client
\* and the engine are built without a timeout (redis_manager.py:64-73,
\* manager.py:54-62) and no await is wrapped in one, so a call resumes when
\* the backend answers, with a result or with an error, and not before.

BackendOps == {"redis_get", "db_load", "redis_set"}

\* the tier operations of the call, in the order it performs them
CallTiers(op, u, rf, df) ==
    IF op = "get" THEN GetContextCall(u, rf, df).tiers
    ELSE LET ex == Exchange(ncalls + 1)
             c == UpdateContextCall(u, ex[1], ex[2], rf, df) IN
         c.get.tiers
             \o (IF c.get.raised THEN <<>>
                 ELSE <<"local_set">>
                          \o (IF redis_client THEN <<"redis_set">>
                              ELSE <<>>))

\* the position of the first backend operation after pos, 0 when none
NextBackend(tiers, pos) ==
    LET later == {i \in (pos + 1)..Len(tiers) : tiers[i] \in BackendOps} IN
    IF later = {} THEN 0 ELSE CHOOSE i \in later : \A j \in later : i <= j

\* the state of the coordinator but the clock
coordVars == <<redis_client, db_initialized, local_cache, local_cache_ttl,
               redis_store, db, tasks, ncalls, log, since, serIn, serOut>>

\* the call returns
CallReturns(op, u, rf, df) ==
    IF op = "get" THEN GetContextDone(u, rf, df)
    ELSE UpdateContextDone(u, rf, df)

\* a call starts: it runs up to its first await of a backend, or to its
\* return when the local cache serves it; rf and df are the failures the
\* backends will answer with
BeginCall(op, u, rf, df) ==
    /\ waiting = NoWait
    /\ ncalls < MaxCalls
    /\ \E first \in {NextBackend(CallTiers(op, u, rf, df), 0)} :
          IF first = 0
          THEN /\ CallReturns(op, u, rf, df)
               /\ UNCHANGED waiting
          ELSE /\ waiting' = [op |-> op, user |-> u, rf |-> rf, df |-> df,
                              pos |-> first]
               /\ UNCHANGED <<now, coordVars>>
    /\ UNCHANGED <<memVars, cacheVars, dbVars, peerVars, coVars>>

BeginGetContext(u, rf, df) ==
    /\ u \in Users
    /\ BeginCall("get", u, rf, df)

BeginUpdateContext(u, rf, df) ==
    /\ u \in Users
    /\ BeginCall("update", u, rf, df)

\* the backend the call awaits answers: the call runs on to its next await
\* or to its return
BackendAnswers(ops) ==
    /\ waiting.op # "none"
    /\ \E tiers \in {CallTiers(waiting.op, waiting.user, waiting.rf,
                               waiting.df)} :
          /\ waiting.pos <= Len(tiers)
          /\ tiers[waiting.pos] \in ops
          /\ \E next \in {NextBackend(tiers, waiting.pos)} :
                IF next # 0
                THEN /\ waiting' = [waiting EXCEPT !.pos = next]
                     /\ UNCHANGED <<now, coordVars>>
                ELSE /\ waiting' = NoWait
                     /\ CallReturns(waiting.op, waiting.user, waiting.rf,
                                    waiting.df)
    /\ UNCHANGED <<memVars, cacheVars, dbVars, peerVars, coVars>>

RedisAnswers ==
    /\ redis_client
    /\ BackendAnswers({"redis_get", "redis_set"})

StoreAnswers ==
    /\ waiting.op # "none"
    /\ BackendAnswers({"db_load"})

\* time passes, also while a call waits
WaitTick ==
    /\ now < MaxTime
    /\ ncalls > 0 \/ waiting.op # "none"
    /\ now' = now + 1
    /\ UNCHANGED coordVars
    /\ UNCHANGED <<memVars, extVars>>

WaitDbFaults == {0, 1}

NextWait ==
    \/ \E u \in FaultUsers, rf \in RedisFaults, df \in WaitDbFaults :
          BeginGetContext(u, rf, df)
    \/ \E u \in FaultUsers, rf \in RedisFaults, df \in WaitDbFaults :
          BeginUpdateContext(u, rf, df)
    \/ RedisAnswers
    \/ StoreAnswers
    \/ \E i \in 1..Len(tasks), sf \in SaveFaults : SaveToDbAsync(i, sf)
    \/ WaitTick

\* the clock advances and the event loop runs the detached tasks; nothing
\* makes a backend answer
SpecWait ==
    /\ Init
    /\ [][NextWait]_vars
    /\ WF_vars(WaitTick)
    /\ WF_vars(\E i \in 1..Len(tasks), sf \in SaveFaults : SaveToDbAsync(i, sf))

\* ===================================================== a second process
\* Two coordinator processes over the same Redis and the same store: the
\* first is the coordinator above, the second has a local cache of its own
\* and only reads

MaxPeerCalls == 2

InitPeers ==
    /\ now = 0
    /\ redis_client = TRUE
    /\ db_initialized = TRUE
    /\ local_cache = <<>>
    /\ local_cache_ttl = <<>>
    /\ redis_store = <<>>
    /\ db = EmptyDb
    /\ tasks = <<>>
    /\ ncalls = 0
    /\ log = [u \in Users |-> NoCall]
    /\ since = [u \in Users |-> NoSince]
    /\ serIn = DefaultSerIn
    /\ serOut = None
    /\ MemIdle
    /\ ExtIdle

\* get_context(u) of the second process, its backends healthy
PeerGetContext(u) ==
    \E g \in {GetContextOn(peer_cache, peer_cache_ttl, u, {}, 0)} :
    /\ plog.n < MaxPeerCalls
    /\ peer_cache' = g.lc
    /\ peer_cache_ttl' = g.lttl
    /\ redis_store' = g.rs
    /\ db' = g.db
    /\ plog' = LogRecord(plog.n + 1, "get", plog.op, {}, 0, g.raised, g.ret,
                         g.served, g.tiers, g.failed, None, None)
    /\ UNCHANGED <<now, redis_client, db_initialized, local_cache,
                   local_cache_ttl, tasks, ncalls, log, since, serIn, serOut>>
    /\ UNCHANGED <<memVars, cacheVars, dbVars, waitVars, coVars>>

NextPeers ==
    \/ \E u \in FaultUsers, rf \in RedisFaults, df \in WaitDbFaults :
          GetContext(u, rf, df)
    \/ \E u \in FaultUsers, rf \in RedisFaults, df \in WaitDbFaults :
          UpdateContext(u, rf, df)
    \/ \E i \in 1..Len(tasks), sf \in SaveFaults : SaveToDbAsync(i, sf)
    \/ Tick
    \/ \E u \in FaultUsers : PeerGetContext(u)

SpecPeers == InitPeers /\ [][NextPeers]_vars

\* ============================================= overlapping update_context
\* Two coroutines of one event loop run update_context.  A coroutine runs
\* alone from one await of a backend to the next (redis_client.get, the
\* store load, redis_client.setex); between two of its steps the other may
\* run.  _check_local_cache and _set_local_cache contain no await of a
\* backend.  The local cache holds references: a coroutine served by the
\* local cache holds the cached object itself, one served by Redis or the
\* store holds a new object and makes the cache refer to it.

\* max_history of the coordinator the coroutines run in (a window of two
\* exchanges), and the calls of one coroutine
OverlapHistory == 2

MaxOverlapCalls == 2

CoInFlight(c) == coros[c].pc \notin {"idle", "done"}

\* _set_local_cache(u, v) by c with an object v it has just built: the
\* cache refers to v, and no longer to the object another coroutine holds
CoSetLocal(cs, c, v, lc, lttl) ==
    LET l == SetLocalCache(lc, lttl, cs[c].user, v, now) IN
    [lc |-> l.lc, lttl |-> l.lttl,
     cs |-> [d \in Coros |->
               IF d = c THEN [cs[c] EXCEPT !.ctx = Some(v), !.shared = TRUE]
               ELSE IF cs[d].user = cs[c].user
               THEN [cs[d] EXCEPT !.shared = FALSE]
               ELSE cs[d]]]

\* update_context, lines 127-139, by c on the object it holds: the pair is
\* appended to that object, which every holder of the same object sees,
\* and the cache is made to refer to it
CoAppend(cs, c, lc, lttl) ==
    LET v == AppendExchangeWindow(cs[c].ctx[1], cs[c].ex[1][1],
                                  cs[c].ex[1][2], now, OverlapHistory)
        l == SetLocalCache(lc, lttl, cs[c].user, v, now)
    IN  [lc |-> l.lc, lttl |-> l.lttl,
         cs |-> [d \in Coros |->
                   IF d = c
                   THEN [cs[c] EXCEPT !.ctx = Some(v), !.shared = TRUE]
                   ELSE IF cs[d].user # cs[c].user THEN cs[d]
                   ELSE IF cs[d].shared /\ cs[c].shared
                   THEN [cs[d] EXCEPT !.ctx = Some(v)]
                   ELSE [cs[d] EXCEPT !.shared = FALSE]]]

\* c leaves update_context
CoReturned(cs, c) ==
    [cs EXCEPT ![c].pc = "done", ![c].ctx = None, ![c].shared = FALSE,
               ![c].payload = None]

\* update_context from the return of get_context: the append, the local
\* cache, then the await of SETEX with the payload serialized before it
\* or, without a client, the detached save and the return
CoUpdate(cs, c, lc, lttl) ==
    \E a \in {CoAppend(cs, c, lc, lttl)} :
    /\ local_cache' = a.lc
    /\ local_cache_ttl' = a.lttl
    /\ IF redis_client
       THEN /\ coros' = [a.cs EXCEPT
                           ![c].pc = "update_set",
                           ![c].payload =
                               Some(JsonDumps(SerializeContext(
                                        a.cs[c].ctx[1])))]
            /\ UNCHANGED tasks
       ELSE /\ coros' = CoReturned(a.cs, c)
            /\ tasks' = Append(tasks, NewTask(cs[c].user, cs[c].ex[1][1],
                                              cs[c].ex[1][2]))

coFrame ==
    /\ UNCHANGED <<now, redis_client, db_initialized, log, since, serIn,
                   serOut>>
    /\ UNCHANGED <<memVars, cacheVars, dbVars, waitVars, peerVars>>

\* update_context(u, ...) starts in c: get_context looks at the local
\* cache; on a hit the call goes on to the append, otherwise it awaits
\* Redis or, without a client, the store
CoBegin(c, u) ==
    /\ ~CoInFlight(c)
    /\ coros[c].calls < MaxOverlapCalls
    /\ ncalls' = ncalls + 1
    /\ \E chk \in {CheckLocalCache(local_cache, local_cache_ttl, u, now)} :
       \E cs \in {[d \in Coros |->
                     IF d = c
                     THEN [pc |-> "run", user |-> u,
                           ex |-> Some(Exchange(ncalls + 1)),
                           ctx |-> IF chk.hit THEN Some(chk.lc[u]) ELSE None,
                           shared |-> chk.hit, payload |-> None,
                           calls |-> coros[c].calls + 1,
                           over |-> {e \in Coros \ {c} : CoInFlight(e)}]
                     ELSE IF CoInFlight(d)
                     THEN [coros[d] EXCEPT !.over = @ \cup {c}]
                     ELSE coros[d]]} :
          IF chk.hit
          THEN CoUpdate(cs, c, chk.lc, chk.lttl)
          ELSE /\ coros' = [cs EXCEPT ![c].pc = IF redis_client
                                                THEN "redis_get"
                                                ELSE "db_load"]
               /\ local_cache' = chk.lc
               /\ local_cache_ttl' = chk.lttl
               /\ UNCHANGED tasks
    /\ UNCHANGED <<redis_store, db>>
    /\ coFrame

\* Redis answers the GET of c: a payload is deserialized into a new
\* object, cached locally, and the call goes on to the append; without a
\* payload the call awaits the store
CoRedisGetAnswers(c) ==
    /\ coros[c].pc = "redis_get"
    /\ \E g \in {GetFromRedisCache(redis_client, redis_store, coros[c].user,
                                   {}, now)} :
          IF g.value # None
          THEN \E s \in {CoSetLocal(coros, c, g.value[1], local_cache,
                                    local_cache_ttl)} :
                  CoUpdate(s.cs, c, s.lc, s.lttl)
          ELSE /\ coros' = [coros EXCEPT ![c].pc = "db_load"]
               /\ UNCHANGED <<local_cache, local_cache_ttl, tasks>>
    /\ UNCHANGED <<redis_store, db, ncalls>>
    /\ coFrame

\* the store answers the load of c: the context is a new object, cached
\* locally; with a client the call awaits the SETEX of get_context,
\* otherwise it goes on to the append
CoStoreAnswers(c) ==
    /\ coros[c].pc = "db_load"
    /\ \E ld \in {LoadFromDbHandled(
                      LoadFromDbWindow(db, db_initialized, coros[c].user, 0,
                                       now, OverlapHistory),
                      coros[c].user, now)} :
       \E s \in {CoSetLocal(coros, c, ld.context, local_cache,
                            local_cache_ttl)} :
          /\ db' = ld.db
          /\ IF redis_client
             THEN /\ coros' = [s.cs EXCEPT
                                 ![c].pc = "load_set",
                                 ![c].payload =
                                     Some(JsonDumps(SerializeContext(
                                              ld.context)))]
                  /\ local_cache' = s.lc
                  /\ local_cache_ttl' = s.lttl
                  /\ UNCHANGED tasks
             ELSE CoUpdate(s.cs, c, s.lc, s.lttl)
    /\ UNCHANGED <<redis_store, ncalls>>
    /\ coFrame

\* Redis answers the SETEX of get_context: get_context returns and the
\* call goes on to the append
CoLoadSetAnswers(c) ==
    /\ coros[c].pc = "load_set"
    /\ redis_store' = RedisSetex(redis_store, coros[c].user, CacheTtl,
                                 coros[c].payload[1], now)
    /\ CoUpdate(coros, c, local_cache, local_cache_ttl)
    /\ UNCHANGED <<db, ncalls>>
    /\ coFrame

\* Redis answers the SETEX of update_context: the save is detached and the
\* call returns
CoUpdateSetAnswers(c) ==
    /\ coros[c].pc = "update_set"
    /\ redis_store' = RedisSetex(redis_store, coros[c].user, CacheTtl,
                                 coros[c].payload[1], now)
    /\ tasks' = Append(tasks, NewTask(coros[c].user, coros[c].ex[1][1],
                                      coros[c].ex[1][2]))
    /\ coros' = CoReturned(coros, c)
    /\ UNCHANGED <<local_cache, local_cache_ttl, db, ncalls>>
    /\ coFrame

NextOverlap ==
    \/ \E c \in Coros, u \in Users : CoBegin(c, u)
    \/ \E c \in Coros : CoRedisGetAnswers(c)
    \/ \E c \in Coros : CoStoreAnswers(c)
    \/ \E c \in Coros : CoLoadSetAnswers(c)
    \/ \E c \in Coros : CoUpdateSetAnswers(c)
    \/ \E i \in 1..Len(tasks) : SaveToDbAsync(i, 0)

SpecOverlap == Init /\ [][NextOverlap]_vars

\* ============================================================== properties
\* the cached entry of u is there and its expiry has not passed
LocalEntryLive(u) ==
    /\ u \in DOMAIN local_cache
    /\ ~(u \in DOMAIN local_cache_ttl /\ now > local_cache_ttl[u])

\* the key of u holds a payload this version reads
RedisEntryReadable(u) ==
    /\ u \in DOMAIN redis_store
    /\ now < redis_store[u].exp
    /\ redis_store[u].data.kind = "json"

\* this step is a call of get_context / clear_context for u
GetStep(u) == log'[u].n # log[u].n /\ log'[u].op = "get"

ClearStep(u) == log'[u].n # log[u].n /\ log'[u].op = "clear"

\* the history lengths of the contexts returned last or held in a cache
HeldHistoryLengths ==
    {Len(local_cache[u].history) : u \in DOMAIN local_cache}
    \cup {Len(redis_store[u].data.doc.history) :
             u \in {v \in DOMAIN redis_store :
                       redis_store[v].data.kind = "json"}}
    \cup {Len(log[u].ret[1].history) :
             u \in {v \in Users : log[v].ret # None}}

\* every row of d is still in e (the message counter of a conversation may
\* move)
RowsKept(d, e) ==
    /\ Len(e.users) >= Len(d.users)
    /\ Len(e.sessions) >= Len(d.sessions)
    /\ Len(e.conversations) >= Len(d.conversations)
    /\ Len(e.messages) >= Len(d.messages)
    /\ \A i \in 1..Len(d.users) : e.users[i] = d.users[i]
    /\ \A i \in 1..Len(d.sessions) : e.sessions[i] = d.sessions[i]
    /\ \A i \in 1..Len(d.conversations) :
          /\ e.conversations[i].session_id = d.conversations[i].session_id
          /\ e.conversations[i].created_at = d.conversations[i].created_at
    /\ \A i \in 1..Len(d.messages) : e.messages[i] = d.messages[i]

\* the messages the store holds for the conversation of u that the query of
\* _get_or_create_conversation is written to select, at most MaxHistory
StoredHistory(d, u, t) ==
    LET sess == GetSessionById(d, SessionOfUser(u)) IN
    IF GetUserByUsername(d, u) = None \/ sess = None THEN <<>>
    ELSE LET conv == RecentConversation(d, sess[1], t) IN
         IF conv = None THEN <<>>
         ELSE RowsToHistory(
                  GetConversationMessages(d, conv[1], MaxHistory, FALSE).rows)

\* C1: get_context never raises.  Whatever the local cache holds, whether
\* Redis has no client, fails or holds a payload that cannot be read, and
\* whichever step of the store load fails (the store not initialized
\* included), the call returns a context of the user; when the load fell
\* back, the context has an empty history.
C1_GetContextNeverRaises ==
    \A u \in Users :
        log[u].op = "get" =>
            /\ ~log[u].raised
            /\ log[u].ret # None
            /\ log[u].ret[1].user_id = u
            /\ (log[u].failed => log[u].ret[1].history = <<>>)

\* a get_context that found Redis failing and the store failing
C1_Witness ==
    \E u \in Users :
        /\ log[u].op = "get"
        /\ redis_client
        /\ "get" \in log[u].rf
        /\ log[u].df # 0
        /\ log[u].failed
        /\ log[u].ret # None
        /\ log[u].ret[1].history = <<>>

\* C2: get_context consults the local cache, then Redis, then the store.
\* With a live local entry it returns that entry and touches nothing else;
\* otherwise, when the Redis key can be read, it returns the deserialized
\* payload, stores it locally and leaves the store alone; otherwise it
\* loads from the store, stores the result locally and, when there is a
\* client and SETEX succeeds, in Redis.
C2_TierOrder ==
    [][\A u \in Users : GetStep(u) =>
        LET e == log'[u]
            hit == redis_client /\ "get" \notin e.rf /\ RedisEntryReadable(u)
            r1 == IF redis_client THEN <<"redis_get">> ELSE <<>>
            r2 == IF redis_client THEN <<"redis_set">> ELSE <<>>
        IN  /\ LocalEntryLive(u) =>
                /\ e.served = "local"
                /\ e.tiers = <<"local_get">>
                /\ e.ret = Some(local_cache[u])
                /\ UNCHANGED <<local_cache, local_cache_ttl, redis_store, db>>
            /\ (~LocalEntryLive(u) /\ hit) =>
                /\ e.served = "redis"
                /\ e.tiers = <<"local_get", "redis_get", "local_set">>
                /\ e.ret = Some(DeserializeContext(redis_store[u].data.doc))
                /\ u \in DOMAIN local_cache'
                /\ local_cache'[u] = e.ret[1]
                /\ local_cache_ttl'[u] = now + CacheTtl
                /\ UNCHANGED <<redis_store, db>>
            /\ (~LocalEntryLive(u) /\ ~hit) =>
                /\ e.served = "db"
                /\ e.tiers = <<"local_get">> \o r1
                                 \o <<"db_load", "local_set">> \o r2
                /\ e.ret # None
                /\ u \in DOMAIN local_cache'
                /\ local_cache'[u] = e.ret[1]
                /\ local_cache_ttl'[u] = now + CacheTtl
                /\ (redis_client /\ "setex" \notin e.rf) =>
                      /\ u \in DOMAIN redis_store'
                      /\ redis_store'[u] =
                             [data |-> JsonDumps(SerializeContext(e.ret[1])),
                              exp |-> now + CacheTtl]
                /\ (~redis_client \/ "setex" \in e.rf) =>
                      redis_store' = redis_store
      ]_vars

\* a get_context served by Redis: the key held messages and went into the
\* local cache
C2_Witness ==
    \E u \in Users :
        /\ log[u].op = "get"
        /\ log[u].served = "redis"
        /\ log[u].tiers = <<"local_get", "redis_get", "local_set">>
        /\ Len(log[u].ret[1].history) > 0
        /\ u \in DOMAIN local_cache

C4_SlidingWindow ==
    \A u \in DOMAIN local_cache :
        LET all == since[u].h0 \o since[u].app
            h == local_cache[u].history
        IN  /\ h = LastN(all, Min(Len(all), 2 * MaxHistory))
            /\ since[u].h0 = <<>> =>
                   Len(h) = Min(Len(since[u].app), 2 * MaxHistory)

\* two updates on one cached context: the older messages were dropped
C4_Witness ==
    \E u \in DOMAIN local_cache :
        /\ Len(since[u].app) = 4
        /\ Len(since[u].h0 \o since[u].app) > 2 * MaxHistory

\* C5, as stated: every context returned or cached has at most MaxHistory
\* messages.
C5_Original == \A n \in HeldHistoryLengths : n <= MaxHistory

\* C5, as the code has it: every context returned by get_context or held in
\* the local cache or in Redis has at most 2 * MaxHistory messages.
C5_HistoryBounded == \A n \in HeldHistoryLengths : n <= 2 * MaxHistory

\* a full window in Redis after a truncation
C5_Witness ==
    \E u \in DOMAIN redis_store :
        /\ redis_store[u].data.kind = "json"
        /\ Len(redis_store[u].data.doc.history) = 2 * MaxHistory
        /\ Len(since[u].h0 \o since[u].app) > 2 * MaxHistory

\* C6: two consecutive get_context calls for a user, without update_context
\* or clear_context for that user between them, return equal contexts,
\* whichever tier serves each.
C6_RepeatableRead ==
    [][\A u \in Users :
        (GetStep(u) /\ log[u].op = "get") => log'[u].ret = log[u].ret
      ]_vars

\* C7: clear_context(u) removes the local entry of u with its expiry and,
\* when there is a client and DEL succeeds, the Redis key of u, and changes
\* nothing else: the store, the pending saves and the cache entries of the
\* other users are as before.
C7_ClearFrame ==
    [][\A u \in Users : ClearStep(u) =>
        /\ u \notin DOMAIN local_cache'
        /\ u \notin DOMAIN local_cache_ttl'
        /\ (redis_client /\ ~log'[u].raised) => u \notin DOMAIN redis_store'
        /\ db' = db
        /\ tasks' = tasks
        /\ \A v \in Users \ {u} :
              /\ v \in DOMAIN local_cache' <=> v \in DOMAIN local_cache
              /\ v \in DOMAIN local_cache => local_cache'[v] = local_cache[v]
              /\ v \in DOMAIN local_cache_ttl' <=> v \in DOMAIN local_cache_ttl
              /\ v \in DOMAIN local_cache_ttl =>
                     local_cache_ttl'[v] = local_cache_ttl[v]
              /\ v \in DOMAIN redis_store' <=> v \in DOMAIN redis_store
              /\ v \in DOMAIN redis_store => redis_store'[v] = redis_store[v]
        /\ \A v \in DOMAIN redis_store' : redis_store'[v] = redis_store[v]
        /\ UNCHANGED <<now, redis_client, db_initialized>>
      ]_vars

\* a clear_context that removed a cached context while the store held
\* messages and another user had entries in both caches
C7_Witness ==
    /\ log["u1"].op = "clear"
    /\ ~log["u1"].raised
    /\ log["u1"].held # None
    /\ "u1" \notin DOMAIN local_cache
    /\ "u1" \notin DOMAIN redis_store
    /\ Len(db.messages) > 0
    /\ "u2" \in DOMAIN local_cache
    /\ "u2" \in DOMAIN redis_store

C9_ReadBackFromStore ==
    [][\A u \in Users :
        (GetStep(u) /\ redis_client /\ ~LocalEntryLive(u) /\ db_initialized
                    /\ {"get", "setex"} \subseteq log'[u].rf
                    /\ log'[u].df = 0) =>
            /\ ~log'[u].raised
            /\ log'[u].ret # None
            /\ log'[u].ret[1].history = StoredHistory(db, u, now)
      ]_vars

\* C10: _deserialize_context(_serialize_context(ctx)) equals ctx: user id,
\* session id, metadata, and the messages in order with role, content,
\* timestamp (absent, whole seconds, with microseconds) and metadata;
\* the same through the Redis key.
C10_RoundTrip == serOut # None => serOut[1] = serIn

\* a round trip of a history with a timestamp with microseconds and one
\* without timestamp
C10_Witness ==
    /\ serOut # None
    /\ Len(serIn.history) = MaxSerLen
    /\ \E i \in 1..Len(serIn.history) :
          /\ serIn.history[i].timestamp # None
          /\ serIn.history[i].timestamp[1].us # 0
    /\ \E i \in 1..Len(serIn.history) : serIn.history[i].timestamp = None

\* this step is a call of update_context for u
UpdateStep(u) == log'[u].n # log[u].n /\ log'[u].op = "update"

\* the conversation of the session of u that the reuse query selects at t
ActiveConversation(d, u, t) ==
    LET sess == GetSessionById(d, SessionOfUser(u)) IN
    IF sess = None THEN None ELSE RecentConversation(d, sess[1], t)

\* C11: get-or-create of the active conversation is idempotent.  When the
\* session of the user already has a conversation created within the reuse
\* window, a load of the coordinator (in get_context or in update_context)
\* whose store steps all succeed returns that conversation and creates no
\* conversation row.
C11_GetOrCreateIdempotent ==
    [][\A u \in Users :
        ((GetStep(u) \/ UpdateStep(u)) /\ log'[u].served = "db"
            /\ ~log'[u].failed /\ ActiveConversation(db, u, now) # None) =>
            /\ Len(db'.conversations) = Len(db.conversations)
            /\ local_cache'[u].metadata["conversation_id"]
                   = ActiveConversation(db, u, now)[1]
      ]_vars

\* the message rows of a conversation, in table order
MessagesOf(d, cid) ==
    SelectSeq(d.messages, LAMBDA row : row.conversation_id = cid)

\* the conversations whose age has reached the reuse window at t
StaleConversations(d, t) ==
    {c \in 1..Len(d.conversations) :
        t - d.conversations[c].created_at >= ReuseWindow}

\* C12: once the age of a conversation has reached the reuse window it is
\* stale: no load selects it, and no step of the coordinator (the detached
\* save included) appends a message row to it or changes its counter.
C12_StaleConversationFrozen ==
    [][\A c \in StaleConversations(db, now) :
          /\ db'.conversations[c] = db.conversations[c]
          /\ MessagesOf(db', c) = MessagesOf(db, c)
          /\ \A u \in Users :
                ((GetStep(u) \/ UpdateStep(u)) /\ log'[u].served = "db"
                    /\ ~log'[u].failed) =>
                    local_cache'[u].metadata["conversation_id"] # c
      ]_vars

\* C13: the durable writes of one conversation are serialized.  The calls
\* of update_context follow one another and exchange n carries the contents
\* 2n-1 and 2n, so the message rows of a conversation stand in the order of
\* their contents, in the table and by timestamp, however the detached saves
\* are scheduled.
C13_WritesSerialized ==
    \A c \in 1..Len(db.conversations) :
        \A i, j \in 1..Len(MessagesOf(db, c)) :
            i < j =>
                /\ MessagesOf(db, c)[i].content < MessagesOf(db, c)[j].content
                /\ DateTimeLeq(MessagesOf(db, c)[i].timestamp,
                               MessagesOf(db, c)[j].timestamp)

\* this step is the run of a detached _save_to_db_async
SaveStep == Len(tasks') < Len(tasks)

\* the history of the context ends with the exchange ex
EndsWithExchange(context, ex) ==
    /\ Len(context.history) >= 2
    /\ SubSeq(context.history, Len(context.history) - 1,
              Len(context.history)) = <<ex[1], ex[2]>>

\* C14: update_context returns once the caches are written and does not
\* wait for the durable write: when it returns, the local entry ends with
\* the new pair, the Redis key (client present, SETEX not failing) holds the
\* same context, the save is a pending task and no message row was inserted.
\* The detached save, failing or not, changes no cache entry and no outcome
\* of any call.
C14_ReturnsBeforeDurableWrite ==
    [][/\ \A u \in Users :
            (UpdateStep(u) /\ ~log'[u].raised) =>
                /\ u \in DOMAIN local_cache'
                /\ EndsWithExchange(local_cache'[u], log'[u].ex[1])
                /\ (redis_client /\ "setex" \notin log'[u].rf) =>
                       /\ RedisEntryReadable(u)'
                       /\ redis_store'[u].data =
                              JsonDumps(SerializeContext(local_cache'[u]))
                /\ tasks' = Append(tasks, NewTask(u, log'[u].ex[1][1],
                                                  log'[u].ex[1][2]))
                /\ db'.messages = db.messages
       /\ SaveStep =>
                /\ local_cache' = local_cache
                /\ local_cache_ttl' = local_cache_ttl
                /\ redis_store' = redis_store
                /\ log' = log
      ]_vars

\* an update_context has returned, its detached save has run and failed at
\* the second insert, and the local entry still ends with the pair
C14_Witness ==
    /\ tasks = <<>>
    /\ db_initialized
    /\ log["u1"].op = "update"
    /\ ~log["u1"].raised
    /\ Len(db.messages) = 1
    /\ "u1" \in DOMAIN local_cache
    /\ EndsWithExchange(local_cache["u1"], log["u1"].ex[1])

\* the pending tasks without the i-th
TasksWithout(i) == SubSeq(tasks, 1, i - 1) \o SubSeq(tasks, i + 1, Len(tasks))

\* C15: forward progress of the durable write.  The detached save of a
\* completed update_context is the only writer of its pair, so the pair
\* reaches the store only if that run inserts it: whenever the task runs
\* with the store available and no store step failing, both m and r are
\* inserted, in this order, whatever calls came in between and however the
\* cached context was first created.
C15_SaveInsertsPair ==
    [][\A i \in 1..Len(tasks) :
          (/\ SaveStep
           /\ tasks' = TasksWithout(i)
           /\ db_initialized
           /\ db' = SaveToDbAsyncCall(tasks[i], local_cache, db, 0, now).db) =>
              /\ Len(db'.messages) = Len(db.messages) + 2
              /\ db'.messages[Len(db.messages) + 1].content
                     = tasks[i].message.content
              /\ db'.messages[Len(db.messages) + 2].content
                     = tasks[i].response.content
      ]_vars

\* this step is a call of add_message / get_conversation_history /
\* save_turn / search_conversations
AddStep == mcalls' # mcalls /\ mlog'.op = "add"

HistoryStep == mcalls' # mcalls /\ mlog'.op = "history"

TurnStep == mcalls' # mcalls /\ mlog'.op = "turn"

SearchStep == mcalls' # mcalls /\ mlog'.op = "search"

\* the step inserted a message row for the entry
RowInserted(entry) ==
    /\ Len(db'.messages) = Len(db.messages) + 1
    /\ db'.messages[Len(db'.messages)].content = entry.message.content
    /\ db'.messages[Len(db'.messages)].role = entry.message.role

\* after the step the file of the session ends with the entry
ItemAppended(session_id, entry) ==
    /\ session_id \in DOMAIN files'
    /\ Len(files'[session_id]) > 0
    /\ DeserializeEntry(files'[session_id][Len(files'[session_id])]) = entry
    /\ \A i \in 1..Len(EntriesOf(files, session_id)) :
          FromIsoFormat(files[session_id][i].timestamp) # entry.timestamp

\* C16: add_message persists the entry in exactly one durable backend: a
\* message row of the store when the store is enabled and reachable, the
\* fallback file of the session otherwise, in particular when the write to
\* the store fails.
C16_ExactlyOneBackend ==
    [][AddStep =>
          /\ RowInserted(mlog'.entries[1])
                 \/ ItemAppended(mlog'.session, mlog'.entries[1])
          /\ ~(RowInserted(mlog'.entries[1])
                 /\ ItemAppended(mlog'.session, mlog'.entries[1]))
          /\ RowInserted(mlog'.entries[1])
                 <=> (use_postgres /\ mlog'.fault = 0)
      ]_vars

\* r is the end of a
IsSuffix(r, a) ==
    /\ Len(r) <= Len(a)
    /\ r = SubSeq(a, Len(a) - Len(r) + 1, Len(a))

\* C17 as stated: with the store disabled every entry added is written to
\* the file of its session, and a get_conversation_history that finds the
\* cache empty (a new manager over the same storage path) returns every
\* entry added to the session, in the order added.
C17_Original ==
    [][/\ (AddStep /\ ~use_postgres) =>
              ItemAppended(mlog'.session, mlog'.entries[1])
       /\ (HistoryStep /\ ~use_postgres /\ ~mlog'.cached
              /\ mlog'.limit = 0) =>
              mlog'.ret = EntriesOf(added, mlog'.session)
      ]_vars

\* C17, amended: with the store disabled every entry added is written at
\* the end of the file of its session, and a get_conversation_history that
\* finds the cache empty returns an end of the list of entries added to the
\* session, in the order added; without a limit that end holds every entry
\* younger than the retention time.
C17_FallbackFileRoundTrip ==
    [][/\ (AddStep /\ ~use_postgres) =>
              ItemAppended(mlog'.session, mlog'.entries[1])
       /\ (HistoryStep /\ ~use_postgres /\ ~mlog'.cached) =>
              /\ IsSuffix(mlog'.ret, EntriesOf(added, mlog'.session))
              /\ mlog'.limit = 0 =>
                    \A i \in 1..Len(EntriesOf(added, mlog'.session)) :
                        added[mlog'.session][i].timestamp.s
                                > now - RetentionTime =>
                            i > Len(added[mlog'.session]) - Len(mlog'.ret)
      ]_vars

\* a new manager read two entries of a session back from its file
C17_Witness ==
    /\ ~use_postgres
    /\ mlog.op = "history"
    /\ ~mlog.cached
    /\ mlog.limit = 0
    /\ Len(mlog.ret) = 2
    /\ mlog.ret = EntriesOf(added, mlog.session)

\* C18: save_turn adds exactly two entries to the history of the user, the
\* entry of the user message before the entry of the assistant message,
\* the timestamp of the assistant message not before that of the user
\* message, and never raises.  What the list held before stays in front, in
\* its order, less what the retention sweep removed; no other session gets
\* an entry.
C18_SaveTurnAddsPair ==
    [][TurnStep =>
          /\ ~mlog'.raised
          /\ mlog'.session \in DOMAIN conversations'
          /\ \E h \in {conversations'[mlog'.session]} :
                /\ Len(h) >= 2
                /\ IsSuffix(SubSeq(h, 1, Len(h) - 2),
                            EntriesOf(conversations, mlog'.session))
                /\ h[Len(h) - 1].message.role = "user"
                /\ h[Len(h)].message.role = "assistant"
                /\ \E turn \in MemTurns :
                      /\ h[Len(h) - 1].message.content = turn.user
                      /\ h[Len(h)].message.content = turn.assistant
                /\ DateTimeLeq(h[Len(h) - 1].message.timestamp[1],
                               h[Len(h)].message.timestamp[1])
                /\ DateTimeLeq(h[Len(h) - 1].timestamp, h[Len(h)].timestamp)
          /\ \A sid \in DOMAIN conversations' \ {mlog'.session} :
                IsSuffix(conversations'[sid], EntriesOf(conversations, sid))
      ]_vars

\* a save_turn whose store writes failed, on a session that already had an
\* entry: its list now has three
C18_Witness ==
    /\ mlog.op = "turn"
    /\ mlog.fault # 0
    /\ mlog.session \in DOMAIN conversations
    /\ Len(conversations[mlog.session]) = 3
    /\ conversations[mlog.session][2].message.role = "user"
    /\ conversations[mlog.session][3].message.role = "assistant"

\* the message rows written for a session (rows of the conversations of
\* the store session whose token is the session id), in insertion order
PersistedRows(d, session_id) ==
    SelectSeq(d.messages,
        LAMBDA row :
            /\ row.conversation_id \in 1..Len(d.conversations)
            /\ d.conversations[row.conversation_id].session_id
                   \in 1..Len(d.sessions)
            /\ d.sessions[d.conversations[row.conversation_id].session_id]
                   .session_token = session_id)

\* C19: a get_conversation_history that misses the cache returns, with the
\* store enabled and reachable, the entries persisted through add_message
\* for the session, in insertion order; with the store disabled, the
\* entries of the fallback file of the session.  What it returns is stored
\* in the cache.
C19_CacheMissLoads ==
    [][(HistoryStep /\ ~mlog'.cached) =>
          /\ mlog'.session \in DOMAIN conversations'
          /\ conversations'[mlog'.session] = mlog'.ret
          /\ (use_postgres /\ mlog'.fault = 0 /\ mlog'.limit = 0) =>
                /\ Len(mlog'.ret) = Len(PersistedRows(db, mlog'.session))
                /\ \A i \in 1..Len(mlog'.ret) :
                      /\ mlog'.ret[i].message.content
                             = PersistedRows(db, mlog'.session)[i].content
                      /\ mlog'.ret[i].message.role
                             = PersistedRows(db, mlog'.session)[i].role
          /\ ~use_postgres =>
                IsSuffix(mlog'.ret,
                         [i \in 1..Len(EntriesOf(files, mlog'.session)) |->
                             DeserializeEntry(files[mlog'.session][i])])
      ]_vars

\* two characters that differ at most in case
EqIgnoreCase(a, b) == a = b \/ {a, b} \in {{"m", "M"}, {"x", "X"}, {"y", "Y"}}

\* hay contains needle, case ignored
ContainsIgnoreCase(hay, needle) ==
    \E i \in 0..(Len(hay) - Len(needle)) :
        \A k \in 1..Len(needle) : EqIgnoreCase(hay[i + k], needle[k])

\* the content, the intent or the response of the entry contains the query
Hit(entry, query) ==
    \/ ContainsIgnoreCase(entry.message.content, query)
    \/ entry.intent # None /\ ContainsIgnoreCase(entry.intent[1], query)
    \/ entry.response # None /\ ContainsIgnoreCase(entry.response[1], query)

\* the cached entries in the scope of a search (user_id = "": every
\* session) that contain the query
Hits(query, user_id) ==
    {entry \in UNION {{conversations[sid][i] :
                          i \in 1..Len(conversations[sid])} :
                      sid \in {x \in DOMAIN conversations :
                                  user_id = "" \/ x = user_id}} :
        Hit(entry, query)}

\* C20: search_conversations returns exactly the cached entries (of the
\* session user_id when one is given) whose message content, intent or
\* response contains the query, case ignored: each once, the newest first,
\* cut to the limit newest; it returns no other entry, changes nothing and
\* never raises.
C20_SearchExact ==
    [][SearchStep =>
          /\ ~mlog'.raised
          /\ conversations' = conversations
          /\ \A i \in 1..Len(mlog'.ret) :
                mlog'.ret[i] \in Hits(mlog'.query, mlog'.session)
          /\ Len(mlog'.ret)
                 = Min(mlog'.limit,
                       Cardinality(Hits(mlog'.query, mlog'.session)))
          /\ \A i, j \in 1..Len(mlog'.ret) :
                i < j => DateTimeLess(mlog'.ret[j].timestamp,
                                      mlog'.ret[i].timestamp)
          /\ \A entry \in Hits(mlog'.query, mlog'.session) :
                \/ \E i \in 1..Len(mlog'.ret) : mlog'.ret[i] = entry
                \/ \A i \in 1..Len(mlog'.ret) :
                      DateTimeLess(entry.timestamp, mlog'.ret[i].timestamp)
      ]_vars

\* a search in upper case returned the newer of two cached entries that
\* contain the query in another case, the limit being 1
C20_Witness ==
    /\ mlog.op = "search"
    /\ mlog.query = <<"X", "Y">>
    /\ mlog.limit = 1
    /\ Cardinality(Hits(mlog.query, mlog.session)) = 2
    /\ Len(mlog.ret) = 1
    /\ \A entry \in Hits(mlog.query, mlog.session) :
          DateTimeLeq(entry.timestamp, mlog.ret[1].timestamp)

\* this step is a call of cleanup
CleanupStep == mcalls' # mcalls /\ mlog'.op = "cleanup"

\* the timestamp is not older than the current time minus the retention
\* time (the clock reading of the call is DateTime(now, 8 * mcalls))
WithinRetention(timestamp) ==
    \/ timestamp.s > now - RetentionTime
    \/ timestamp.s = now - RetentionTime /\ timestamp.us > 8 * mcalls

\* C21: after cleanup no entry of the in-process cache and no item of a
\* fallback file is older than the current time minus the retention time,
\* every newer entry and item is kept in its order, a session or a file
\* left empty is removed, and the store is unchanged.
C21_CleanupRetention ==
    [][CleanupStep =>
          /\ db' = db
          /\ DOMAIN conversations' =
                 {sid \in DOMAIN conversations :
                     \E i \in 1..Len(conversations[sid]) :
                         WithinRetention(conversations[sid][i].timestamp)}
          /\ \A sid \in DOMAIN conversations' :
                conversations'[sid] =
                    SelectSeq(conversations[sid],
                        LAMBDA entry : WithinRetention(entry.timestamp))
          /\ DOMAIN files' =
                 {sid \in DOMAIN files :
                     \E i \in 1..Len(files[sid]) :
                         WithinRetention(
                             DeserializeEntry(files[sid][i]).timestamp)}
          /\ \A sid \in DOMAIN files' :
                files'[sid] =
                    SelectSeq(files[sid],
                        LAMBDA item :
                            WithinRetention(DeserializeEntry(item).timestamp))
      ]_vars

\* a cleanup removed an entry from the cache and an item from a file and
\* kept a newer entry and a newer item
C21_Witness ==
    /\ mlog.op = "cleanup"
    /\ Len(mlog.entries) > 0
    /\ conversations # <<>>
    /\ files # <<>>
    /\ \E sid \in DOMAIN added : sid \notin DOMAIN files

\* this step is a call of the RedisCacheManager
CacheStep == ccalls' # ccalls

\* what an operation returns for a miss or a failure
MissValue(op) ==
    CASE op = "get" -> None
      [] op \in {"get_multiple"} -> <<>>
      [] op = "clear_pattern" -> 0
      [] OTHER -> FALSE

\* C22: no operation of the RedisCacheManager raises; without a client, or
\* when a step of the operation fails, it returns its miss value (None,
\* False, the empty dict, 0).
C22_CacheNeverRaises ==
    [][CacheStep /\ clog'.op # "initialize" =>
          /\ clog'.raised = FALSE
          /\ (~clog'.present \/ clog'.failed)
                 => clog'.ret = MissValue(clog'.op)
          /\ clog'.failed => cache' = cache
      ]_vars

\* an exists or expire whose command failed returned False, with keys on
\* the server
C22_Witness ==
    /\ clog.present
    /\ clog.failed
    /\ clog.op \in {"exists", "expire"}
    /\ clog.ret = FALSE
    /\ ~clog.raised
    /\ cache # <<>>

StatsSum(st) == st.hits + st.misses + st.sets + st.deletes + st.errors

CountedOps ==
    {"get", "set", "delete", "exists", "expire", "get_multiple",
     "set_multiple", "clear_pattern"}

\* C23: every call of get, set, delete, exists, expire, get_multiple,
\* set_multiple or clear_pattern raises the sum of the five counters by at
\* least one, failed calls and calls without a client included.
C23_EveryCallCounted ==
    [][CacheStep /\ clog'.op \in CountedOps =>
          StatsSum(stats') >= StatsSum(stats) + 1]_vars

\* the thread has finished a get_or_create_* whose first query found no row
MissedThenDone(th) ==
    /\ threads[th].pc = "done"
    /\ threads[th].op \in {"get_or_create_user", "get_or_create_session"}
    /\ threads[th].local = None

\* the rows of the table of op that hold the key
RowsOfKey(op, key) ==
    IF op = "get_or_create_user"
    THEN {i \in 1..Len(db.users) : db.users[i].username = key}
    ELSE {i \in 1..Len(db.sessions) : db.sessions[i].session_token = key}

\* C24: two overlapping get_or_create_user (or get_or_create_session) calls
\* for one key that both found no row, with the connection up, both return
\* the same single row, neither raises, and one row holds the key
\* afterwards.
C24_GetOrCreateConcurrent ==
    \A a, b \in Threads :
        (/\ a # b
         /\ MissedThenDone(a) /\ MissedThenDone(b)
         /\ threads[a].op = threads[b].op
         /\ threads[a].key = threads[b].key
         /\ ~threads[a].lost /\ ~threads[b].lost)
        => /\ ~threads[a].raised /\ ~threads[b].raised
           /\ threads[a].ret = threads[b].ret
           /\ RowsOfKey(threads[a].op, threads[a].key) = {threads[a].ret}

\* C25: in every committed state the message_count of a conversation is
\* the number of its message rows.
C25_CountMatchesRows ==
    \A cid \in 1..Len(db.conversations) :
        db.conversations[cid].message_count = Len(MessagesOf(db, cid))

\* the Redis key of u is live and holds a payload json.loads or
\* _deserialize_context rejects
PayloadCorrupt(u) ==
    /\ redis_client
    /\ RedisGet(redis_store, u, now) # None
    /\ redis_store[u].data.kind \in BadPayloadKinds

\* C26: a get_context that finds no live local entry and a corrupt Redis
\* payload, with Redis answering, does not raise; it loads from the store,
\* returns the loaded context, caches it locally and replaces the payload
\* in Redis by the serialized loaded context.
C26_CorruptPayloadIsMiss ==
    [][\A u \in Users :
        (GetStep(u) /\ ~LocalEntryLive(u) /\ PayloadCorrupt(u)
            /\ log'[u].rf = {}) =>
        LET e == log'[u] IN
            /\ ~e.raised
            /\ e.served = "db"
            /\ e.tiers = <<"local_get", "redis_get", "db_load", "local_set",
                           "redis_set">>
            /\ e.ret # None
            /\ e.ret[1].user_id = u
            /\ u \in DOMAIN local_cache'
            /\ local_cache'[u] = e.ret[1]
            /\ local_cache_ttl'[u] = now + CacheTtl
            /\ redis_store'[u] =
                   [data |-> JsonDumps(SerializeContext(e.ret[1])),
                    exp |-> now + CacheTtl]
      ]_vars

\* the last call for u was a get_context whose GET returned a corrupt
\* payload; it went on to the store and both caches hold what it returned
C26_Witness ==
    \E u \in Users :
        /\ log[u].op = "get"
        /\ ~log[u].raised
        /\ log[u].held # None
        /\ log[u].held[1].kind \in BadPayloadKinds
        /\ log[u].served = "db"
        /\ u \in DOMAIN local_cache
        /\ local_cache[u] = log[u].ret[1]
        /\ u \in DOMAIN redis_store
        /\ redis_store[u].data = JsonDumps(SerializeContext(log[u].ret[1]))

\* C27: with a Redis client whose commands fail, update_context and
\* clear_context return without raising and their effect on the local
\* cache is applied (the new pair is cached, the entry is removed).
C27_WriteSideTolerant ==
    [][\A u \in Users :
        (redis_client /\ (UpdateStep(u) \/ ClearStep(u))
            /\ log'[u].rf # {}) =>
            /\ ~log'[u].raised
            /\ ClearStep(u) => u \notin DOMAIN local_cache'
            /\ UpdateStep(u) =>
                  /\ u \in DOMAIN local_cache'
                  /\ EndsWithExchange(local_cache'[u], log'[u].ex[1])
      ]_vars

\* C28: get_context and update_context always terminate: a call that
\* awaits a backend returns, whether or not the backend answers.
C28_CallsTerminate == (waiting.op # "none") ~> (waiting.op = "none")

\* C29: a coordinator over a store that is not initialized does not exist
\* (its construction fails), so every coordinator that serves calls has an
\* initialized store; and no call of a coordinator raises.
C29_FailFast ==
    /\ ncalls > 0 => db_initialized
    /\ \A u \in Users : ~log[u].raised

\* this step is a get_context of the second process
PeerGetStep == plog'.n # plog.n

\* the store holds a row of this message written more than CacheTtl ago
RowOlderThanTtl(msg) ==
    \E i \in 1..Len(db.messages) :
        /\ db.messages[i].content = msg.content
        /\ db.messages[i].role = msg.role
        /\ db.messages[i].timestamp.s + CacheTtl < now

\* the history holds a message of this content and role
HistoryHolds(history, msg) ==
    \E i \in 1..Len(history) :
        /\ history[i].content = msg.content
        /\ history[i].role = msg.role

\* C30: when the last call of the first process for u was an
\* update_context(u, m, r) that returned and whose two rows were written to
\* the store more than CacheTtl ago, a get_context(u) of the second process
\* returns a history that holds m and r.
C30_BoundedStaleness ==
    [][\A u \in FaultUsers :
        (/\ PeerGetStep
         /\ log[u].op = "update"
         /\ ~log[u].raised
         /\ RowOlderThanTtl(log[u].ex[1][1])
         /\ RowOlderThanTtl(log[u].ex[1][2])) =>
            /\ plog'.ret # None
            /\ HistoryHolds(plog'.ret[1].history, log[u].ex[1][1])
            /\ HistoryHolds(plog'.ret[1].history, log[u].ex[1][2])
      ]_vars

\* the local entry of u is past its expiry instant
LocalEntryExpired(u) ==
    /\ u \in DOMAIN local_cache
    /\ u \in DOMAIN local_cache_ttl
    /\ now > local_cache_ttl[u]

ActiveConversationRows(d, u, t) ==
    LET sess == GetSessionById(d, SessionOfUser(u)) IN
    IF GetUserByUsername(d, u) = None \/ sess = None THEN <<>>
    ELSE LET conv == RecentConversation(d, sess[1], t) IN
         IF conv = None THEN <<>>
         ELSE SortByTimestamp(
                  SelectSeq(d.messages,
                      LAMBDA row : row.conversation_id = conv[1]))

\* C32: a get_context served by a load from the store that did not fall
\* back returns as history the most recent MaxHistory messages of the
\* active conversation of the user, in ascending timestamp order: of a
\* conversation with more than MaxHistory messages the oldest are left out.
C32_ColdLoadMostRecent ==
    [][\A u \in Users :
         (GetStep(u) /\ log'[u].served = "db" /\ ~log'[u].failed) =>
             log'[u].ret[1].history =
                 RowsToHistory(
                     PySliceLast(ActiveConversationRows(db, u, now),
                                 MaxHistory))
      ]_vars

\* s starts with t
StartsWith(s, t) == Len(t) <= Len(s) /\ t = SubSeq(s, 1, Len(t))

\* this step is a clear_session
ClearSessionStep == mcalls' # mcalls /\ mlog'.op = "clear"

\* this step ran the retention sweep: cleanup() itself, or an add_message
\* (alone or in save_turn) that found it due
SweepStep ==
    \/ mcalls' # mcalls /\ mlog'.op = "cleanup"
    \/ mcalls' # mcalls /\ mlog'.op \in {"add", "turn"}
          /\ last_cleanup' # last_cleanup

\* C33: the file of a session is append-only between retention sweeps.  An
\* add_message with the store disabled during which no sweep runs leaves
\* the file of its session equal to the old array with one item, the new
\* entry, appended, and every other file as it was.  When the sweep runs at
\* the end of the call, each file is left as an end of what it would have
\* been, the new item is still the last of its file and every item dropped
\* is older than the cutoff.  No other step removes or changes an item of a
\* file, except the sweep and the clear_session of that session.
C33_FileAppendOnly ==
    [][/\ (AddStep /\ ~use_postgres) =>
            LET sid == mlog'.session
                item == SerializeEntry(mlog'.entries[1])
                base == Append(EntriesOf(files, sid), item)
            IN  /\ ~SweepStep =>
                    /\ DOMAIN files' = DOMAIN files \cup {sid}
                    /\ files'[sid] = base
                    /\ \A x \in DOMAIN files \ {sid} : files'[x] = files[x]
                /\ SweepStep =>
                    /\ sid \in DOMAIN files'
                    /\ IsSuffix(files'[sid], base)
                    /\ files'[sid][Len(files'[sid])] = item
                    /\ \A i \in 1..(Len(base) - Len(files'[sid])) :
                          ~DateTimeLess(CutoffDate(last_cleanup'),
                                        FromIsoFormat(base[i].timestamp))
                    /\ \A x \in DOMAIN files \ {sid} :
                          IsSuffix(EntriesOf(files', x), files[x])
       /\ \A x \in MemSessions :
            ~StartsWith(EntriesOf(files', x), EntriesOf(files, x))
                => \/ SweepStep
                   \/ ClearSessionStep /\ mlog'.session = x
      ]_vars

\* an add_message with the store disabled has appended to a file that held
\* an item already, while the other session has a file of its own
C33_Witness ==
    /\ ~use_postgres
    /\ mlog.op = "add"
    /\ mlog.session \in DOMAIN files
    /\ Len(files[mlog.session]) >= 2
    /\ files[mlog.session][Len(files[mlog.session])]
           = SerializeEntry(mlog.entries[1])
    /\ \E x \in DOMAIN files : x # mlog.session

\* C34: the session get_or_create_session(user_id, token) returns belongs
\* to user_id: whatever the two users and the token, a call that returned a
\* row returned one whose user_id is the one it was called with.
C34_SessionBelongsToCaller ==
    \A th \in Threads :
        (/\ threads[th].op = "get_or_create_session"
         /\ threads[th].pc = "done"
         /\ ~threads[th].raised)
        => /\ threads[th].ret \in 1..Len(db.sessions)
           /\ db.sessions[threads[th].ret].user_id = threads[th].user

\* the history holds the two messages of the exchange, one after the other
HasExchange(history, ex) ==
    \E i \in 1..(Len(history) - 1) :
        /\ history[i].content = ex[1].content
        /\ history[i + 1].content = ex[2].content

\* the two coroutines have returned from update_context calls for one user
\* that were in flight together
OverlappedAndDone(a, b) ==
    /\ a # b
    /\ coros[a].pc = "done" /\ coros[b].pc = "done"
    /\ coros[a].user = coros[b].user
    /\ b \in coros[a].over /\ a \in coros[b].over

\* C35: no update is lost between overlapping update_context calls for one
\* user: once both have returned, the local entry of the user, and the
\* Redis key when there is a client, hold the exchange of each.
C35_NoLostUpdate ==
    \A a, b \in Coros :
        OverlappedAndDone(a, b) =>
            LET u == coros[a].user IN
            /\ u \in DOMAIN local_cache
            /\ HasExchange(local_cache[u].history, coros[a].ex[1])
            /\ HasExchange(local_cache[u].history, coros[b].ex[1])
            /\ redis_client =>
                  /\ u \in DOMAIN redis_store
                  /\ redis_store[u].data.kind = "json"
                  /\ HasExchange(
                         DeserializeContext(redis_store[u].data.doc).history,
                         coros[a].ex[1])
                  /\ HasExchange(
                         DeserializeContext(redis_store[u].data.doc).history,
                         coros[b].ex[1])

\* C36: the in-process cache of the MemoryManager never hides durable
\* entries: a get_conversation_history without limit that the cache serves
\* returns every entry the active backend holds for the session (the items
\* of its file with the store disabled, its message rows with the store
\* enabled), whatever the first operation of the manager on the session
\* was.
C36_CacheHidesNothing ==
    [][(HistoryStep /\ mlog'.limit = 0 /\ mlog'.cached) =>
          /\ ~use_postgres =>
                \A i \in 1..Len(EntriesOf(files, mlog'.session)) :
                    \E j \in 1..Len(mlog'.ret) :
                        mlog'.ret[j]
                            = DeserializeEntry(files[mlog'.session][i])
          /\ use_postgres =>
                \A i \in 1..Len(PersistedRows(db, mlog'.session)) :
                    \E j \in 1..Len(mlog'.ret) :
                        /\ mlog'.ret[j].message.content
                               = PersistedRows(db, mlog'.session)[i].content
                        /\ mlog'.ret[j].message.role
                               = PersistedRows(db, mlog'.session)[i].role
      ]_vars

\* C37: in every state of the coordinator the local cache and its expiry
\* map have the same keys: get_context, update_context, clear_context and
\* the eviction on read add or remove the context of a user and its expiry
\* together.
C37_SameKeySet == DOMAIN local_cache = DOMAIN local_cache_ttl

\* a clear_context has removed the cached context of one user while the
\* other user still has a context and an expiry
C37_Witness ==
    \E u, v \in Users :
        /\ u # v
        /\ log[u].op = "clear"
        /\ log[u].held # None
        /\ u \notin DOMAIN local_cache
        /\ u \notin DOMAIN local_cache_ttl
        /\ v \in DOMAIN local_cache
        /\ v \in DOMAIN local_cache_ttl

====
